---- MODULE Spec2Model ----
(***************************************************************************)
(* Dispatch pipeline of the CQRS library: CommandBus and QueryBus, their   *)
(* handler registries, the behavior chain composed by buildPipeline, the   *)
(* Result model and the built-in behaviors.                                *)
(*                                                                         *)
(* The two bus classes share no state.  A behaviour of this model follows  *)
(* one bus object, chosen at construction (variable bus): "command" is a   *)
(* new CommandBus(), "query" a new QueryBus().                             *)
(*                                                                         *)
(* An execute call is an asynchronous task.  The composed pipeline is a    *)
(* nested closure; a task runs without interruption from one await that    *)
(* suspends it to the next, so that tasks and register/use calls           *)
(* interleave exactly at the awaits of the code.                           *)
(***************************************************************************)
EXTENDS Integers, Sequences, FiniteSets, TLC

VARIABLES
    promises,   \* the container.make(Bus) promises of the register helpers, in call order
    subject,    \* a Result object held by a caller, and the call that constructed it
    observed,   \* the last operation applied to it and what it returned or raised
    cache,      \* the entries of the cache service: key -> value and time-to-live
    bus,        \* which class the bus object is: "command" or "query"
    handlers,   \* CommandBus.handlers / QueryBus.handlers: Map identifier -> handler
    behaviors,  \* CommandBus.behaviors / QueryBus.behaviors: array of behaviors
    tasks,      \* the execute calls in flight or completed, by task id
    lastReg,    \* history: identifier -> handler passed to the latest register call
    replaced,   \* history: identifiers whose handler a later register call has replaced
    calls       \* number of register, use and execute calls made so far

vars == <<promises, subject, observed, cache, bus, handlers, behaviors, tasks, lastReg, replaced, calls>>

(***************************************************************************)
(* Bounds                                                                  *)
(***************************************************************************)
MaxCalls == 4       \* register, use and execute calls in one behaviour

TaskIds == 1..MaxCalls

(***************************************************************************)
(* Result model                                                            *)
(***************************************************************************)
NoFault == [name |-> "", message |-> "", isError |-> FALSE, src |-> ""]

\* new Ok(value)
Ok(v) == [tag |-> "ok", value |-> v, error |-> <<>>]

\* new Err(error)
Err(e) == [tag |-> "err", value |-> 0, error |-> e]

\* new Err(error) where error is a string instead of an array
ErrOfString(text) == [tag |-> "err", value |-> 0, scalar |-> text]

ok(v) == Ok(v)

err(errors) == Err(errors)

\* Mutant: the message is stored as it is, not as a list of one message.
errMessageBare(message) == ErrOfString(message)

errMessage(message) == Err(<<message>>)

\* A bare value, as a query handler returns it (no Result wrapping).
Bare(v) == [tag |-> "value", value |-> v, error |-> <<>>]

\* null
Null == [tag |-> "null", value |-> 0, error |-> <<>>]

NoResult == [tag |-> "none", value |-> 0, error |-> <<>>]

(***************************************************************************)
(* The methods of Ok and Err.  A method call yields the object as the      *)
(* method leaves it (self) and what the method returns or raises (ret):    *)
(* a boolean, a value, a list, a Result object (same tells that it is the  *)
(* object itself: return this), or an Error of a class name with the       *)
(* message text.                                                           *)
(* applied is the number of times the method has called the function it    *)
(* was given.                                                              *)
(***************************************************************************)
NoReturn ==
    [how |-> "none", bool |-> FALSE, val |-> 0, list |-> <<>>, obj |-> NoResult,
     same |-> FALSE, name |-> "", text |-> "", applied |-> 0]

ReturnBool(b) == [NoReturn EXCEPT !.how = "return", !.bool = b]

ReturnValue(v) == [NoReturn EXCEPT !.how = "return", !.val = v]

ReturnList(l) == [NoReturn EXCEPT !.how = "return", !.list = l]

ReturnNew(r, n) == [NoReturn EXCEPT !.how = "return", !.obj = r, !.applied = n]

ReturnThis(r) == [NoReturn EXCEPT !.how = "return", !.obj = r, !.same = TRUE]

\* throw new Error(text)
RaiseError(text) == [NoReturn EXCEPT !.how = "throw", !.name = "Error", !.text = text]

\* a method that assigns nothing to the object
Method(r, ret) == [self |-> r, ret |-> ret]

\* the functions handed to map
Fns == {"double", "negate", "zero"}

\* fn(value)
Apply(fn, v) ==
    CASE fn = "double" -> v * 2
      [] fn = "negate" -> 0 - v
      [] OTHER -> 0

\* Array.prototype.join(separator)
RECURSIVE Join(_, _)
Join(list, separator) ==
    IF list = <<>>
    THEN ""
    ELSE IF Len(list) = 1
         THEN list[1]
         ELSE list[1] \o separator \o Join(Tail(list), separator)

\* Array.isArray(this.error)
Array_isArray(r) == "error" \in DOMAIN r

Ok_isOk(r) == Method(r, ReturnBool(TRUE))

Ok_isErr(r) == Method(r, ReturnBool(FALSE))

\* Mutant: map of an Ok hands the value back untransformed.
Ok_mapUntransformed(r, fn) == Method(r, ReturnNew(Ok(r.value), 0))

Ok_map(r, fn) == Method(r, ReturnNew(Ok(Apply(fn, r.value)), 1))

Ok_unwrapOr(r, defaultValue) == Method(r, ReturnValue(r.value))

Ok_unwrap(r) == Method(r, ReturnValue(r.value))

\* Mutant: an Err answers isOk as an Ok does.
Err_isOkAlways(r) == Method(r, ReturnBool(TRUE))

Err_isOk(r) == Method(r, ReturnBool(FALSE))

Err_isErr(r) == Method(r, ReturnBool(TRUE))

Err_map(r, fn) == Method(r, ReturnThis(r))

Err_unwrapOr(r, defaultValue) == Method(r, ReturnValue(defaultValue))

Err_getErrors(r) ==
    Method(r, ReturnList(IF Array_isArray(r) THEN r.error ELSE <<r.scalar>>))

\* Mutant: the messages are joined without the space.
Err_unwrapJoinedBare(r) ==
    Method(r, RaiseError(IF Array_isArray(r) THEN Join(r.error, ",") ELSE r.scalar))

Err_unwrap(r) ==
    Method(r, RaiseError(IF Array_isArray(r) THEN Join(r.error, ", ") ELSE r.scalar))

\* result.isOk(), result.isErr(), ...: the method of the class of the object
Result_isOk(r) == IF r.tag = "ok" THEN Ok_isOk(r) ELSE Err_isOk(r)

Result_isErr(r) == IF r.tag = "ok" THEN Ok_isErr(r) ELSE Err_isErr(r)

Result_map(r, fn) == IF r.tag = "ok" THEN Ok_map(r, fn) ELSE Err_map(r, fn)

Result_unwrapOr(r, defaultValue) ==
    IF r.tag = "ok" THEN Ok_unwrapOr(r, defaultValue) ELSE Err_unwrapOr(r, defaultValue)

Result_unwrap(r) == IF r.tag = "ok" THEN Ok_unwrap(r) ELSE Err_unwrap(r)

\* isOk(result): result.isOk() of an Ok or Err object
isOk(r) == r.tag \in {"ok", "err"} /\ Result_isOk(r).ret.bool

\* isErr(result): result.isErr() of an Ok or Err object
isErr(r) == r.tag \in {"ok", "err"} /\ Result_isErr(r).ret.bool

getErrors(r) == Err_getErrors(r).ret.list

(***************************************************************************)
(* Outcome of an awaited call: it returns a result or raises a fault.      *)
(***************************************************************************)
Returned(r) == [how |-> "return", result |-> r, fault |-> NoFault]

Thrown(f) == [how |-> "throw", result |-> NoResult, fault |-> f]

Pending == [how |-> "pending", result |-> NoResult, fault |-> NoFault]

\* new Error(message), raised at src
NewError(message, src) ==
    [name |-> "Error", message |-> message, isError |-> TRUE, src |-> src]

\* a raised value that is not an Error instance (a plain object with a message)
RawThrow(message, src) ==
    [name |-> "Object", message |-> message, isError |-> FALSE, src |-> src]

\* class HandlerNotFoundError extends CQRError
HandlerNotFoundError(type, identifier) ==
    [name |-> "HandlerNotFoundError",
     message |-> "No handler registered for " \o type \o ": " \o identifier,
     isError |-> TRUE, src |-> "bus"]

(***************************************************************************)
(* Inputs: the command and query values dispatched, the handlers           *)
(* registered and the behaviors added with use.                            *)
(***************************************************************************)
CommandNames == {"TestCommand", "OtherCommand"}

QueryNames == {"TestQuery", "OtherQuery"}

\* A command value: name is command.constructor.name; validate tells what
\* the command's validate() does ("none": the command has no validate).
Commands ==
    { [name |-> "TestCommand",  value |-> 5,  validate |-> "check"],
      [name |-> "TestCommand",  value |-> -5, validate |-> "check"],
      [name |-> "TestCommand",  value |-> -5, validate |-> "bare"],
      [name |-> "OtherCommand", value |-> 5,  validate |-> "none"],
      [name |-> "OtherCommand", value |-> -5, validate |-> "throws"],
      [name |-> "OtherCommand", value |-> 5,  validate |-> "nothing"] }

Queries ==
    { [name |-> "TestQuery",  value |-> 5],
      [name |-> "TestQuery",  value |-> 7],
      [name |-> "OtherQuery", value |-> 5] }

\* command.validate(): the validation object it resolves to, or the fault
\* it raises.  truthy is FALSE when validate() resolves to undefined.
Validate(command) ==
    CASE command.validate = "check" ->
            IF command.value < 0
            THEN [how |-> "return", truthy |-> TRUE, isValid |-> FALSE,
                  hasErrors |-> TRUE, errors |-> <<"Value must be positive">>]
            ELSE [how |-> "return", truthy |-> TRUE, isValid |-> TRUE,
                  hasErrors |-> FALSE, errors |-> <<>>]
      [] command.validate = "bare" ->
            [how |-> "return", truthy |-> TRUE, isValid |-> FALSE,
             hasErrors |-> FALSE, errors |-> <<>>]
      [] command.validate = "nothing" ->
            [how |-> "return", truthy |-> FALSE, isValid |-> FALSE,
             hasErrors |-> FALSE, errors |-> <<>>]
      [] OTHER ->
            [how |-> "throw", truthy |-> FALSE, isValid |-> FALSE,
             hasErrors |-> FALSE, errors |-> <<>>]

\* Commands dispatched through TransactionCommandBehavior: without a
\* useTransaction property, with useTransaction false, with useTransaction true.
TxCommands ==
    { [name |-> "TestCommand", value |-> 5, validate |-> "none"],
      [name |-> "TestCommand", value |-> 5, validate |-> "none", useTransaction |-> FALSE],
      [name |-> "TestCommand", value |-> 5, validate |-> "none", useTransaction |-> TRUE] }

CommandHandlers == {"TestHandler", "FailingHandler", "ThrowingHandler", "RawThrowingHandler"}

QueryHandlers == {"TestHandler", "EchoHandler", "ThrowingHandler"}

\* handler.handle(command) of the command handlers
CommandHandler_handle(handler, command) ==
    CASE handler = "TestHandler" -> Returned(ok(command.value * 2))
      [] handler = "FailingHandler" -> Returned(err(<<"Handler failed">>))
      [] handler = "ThrowingHandler" -> Thrown(NewError("Unexpected error", "handler"))
      [] handler \in {"CreateUserCommandHandler", "TestCommandHandler", "CommandHandler",
                      "TestQueryHandler", "QueryHandler"} ->
            Returned(ok(0))     \* return ok(): no value, written 0
      [] OTHER -> Thrown(RawThrow("not an Error", "handler"))

\* handler.handle(query) of the query handlers
QueryHandler_handle(handler, query) ==
    CASE handler = "TestHandler" -> Returned(Bare(query.value * 3))
      [] handler = "EchoHandler" -> Returned(Bare(query.value))
      [] handler = "NullHandler" -> Returned(Null)
      [] handler \in {"CreateUserCommandHandler", "TestCommandHandler", "CommandHandler",
                      "TestQueryHandler", "QueryHandler"} ->
            Returned(Bare(query.value))
      [] OTHER -> Thrown(NewError("Query failed", "handler"))

CommandBehaviors ==
    {"PassBehavior", "ShortCircuitBehavior", "ThrowBeforeBehavior", "ThrowAfterBehavior",
     "ValidationCommandBehavior", "LoggingCommandBehavior"}

\* Queries dispatched through CacheQueryBehavior: without a useCache
\* property, with useCache false, with useCache true.
CacheQueries ==
    { [name |-> "TestQuery", value |-> 5],
      [name |-> "TestQuery", value |-> 7],
      [name |-> "TestQuery", value |-> 5, useCache |-> FALSE],
      [name |-> "TestQuery", value |-> 5, useCache |-> TRUE] }

\* the handlers registered on the bus whose queries are cached; NullHandler
\* returns null
CacheHandlers == {"TestHandler", "NullHandler", "ThrowingHandler"}

\* new CacheQueryBehavior() and new CacheQueryBehavior(60)
CacheBehaviors == {"CacheQueryBehavior", "CacheQueryBehavior60", "PassBehavior"}

\* the behaviors used on the bus whose commands run in transactions
TxBehaviors == {"TransactionCommandBehavior", "PassBehavior", "ThrowBeforeBehavior"}

\* What the transaction service raises when it cannot open or cannot commit
\* a transaction: an Error, or a value that is not an Error instance.
DbFaults == {NewError("connection lost", "db"), RawThrow("db failure", "db")}

QueryBehaviors ==
    {"PassBehavior", "ShortCircuitBehavior", "ThrowBeforeBehavior", "ThrowAfterBehavior",
     "LoggingQueryBehavior"}

(***************************************************************************)
(* Behaviors.  handle(message, next) is split at its await next(message):  *)
(* X_before is the part up to the call of next, X_after the part that      *)
(* receives the outcome of next.  X_before also tells whether the behavior *)
(* awaits anything before it calls next (await validate()).                *)
(***************************************************************************)
\* the behavior calls next without having awaited anything
CallNext == [callsNext |-> TRUE, suspends |-> FALSE, out |-> Pending]

\* the behavior awaits something, then calls next
AwaitThenCallNext == [callsNext |-> TRUE, suspends |-> TRUE, out |-> Pending]

\* the behavior returns or raises without calling next
Finish(o) == [callsNext |-> FALSE, suspends |-> FALSE, out |-> o]

\* Mutant: the validation result is ignored.
ValidationCommandBehavior_beforeIgnoring(command) ==
    IF command.validate # "none"
    THEN IF Validate(command).how = "throw"
         THEN Finish(Thrown(NewError("validate failed", "validate")))
         ELSE AwaitThenCallNext
    ELSE CallNext

\* ValidationCommandBehavior.handle
ValidationCommandBehavior_before(command) ==
    IF command.validate # "none"
    THEN LET validation == Validate(command) IN
         IF validation.how = "throw"
         THEN Finish(Thrown(NewError("validate failed", "validate")))
         ELSE IF validation.truthy /\ ~validation.isValid
              THEN Finish(Returned(err(IF validation.hasErrors
                                       THEN validation.errors
                                       ELSE <<"Validation failed">>)))
              ELSE AwaitThenCallNext
    ELSE CallNext

\* Mutant: a failure handed back by next is reported as a validation failure.
ValidationCommandBehavior_afterRewrapping(command, o) ==
    IF o.how = "return" /\ isErr(o.result)
    THEN Returned(err(<<"Validation failed">>))
    ELSE o

\* return next(command): the promise of next is the promise of the behavior
ValidationCommandBehavior_after(command, o) == o

\* LoggingCommandBehavior.handle
LoggingCommandBehavior_before(command) == CallNext

LoggingCommandBehavior_after(command, o) ==
    IF o.how = "return"
    THEN o
    ELSE Returned(err(<<IF o.fault.isError THEN o.fault.message ELSE "Unknown error">>))

\* LoggingQueryBehavior.handle
LoggingQueryBehavior_before(query) == CallNext

\* Mutant: the catch does not re-raise, so that the fault is swallowed.
LoggingQueryBehavior_afterSwallowing(query, o) ==
    IF o.how = "throw" THEN Returned(Bare(0)) ELSE o

\* return result on success; throw error in the catch
LoggingQueryBehavior_after(query, o) == o

\* 'useTransaction' in command && command.useTransaction === false
UseTransactionFalse(command) ==
    "useTransaction" \in DOMAIN command /\ command.useTransaction = FALSE

\* TransactionCommandBehavior.handle awaits the import of the db service,
\* then calls next (a command that opts out) or db.transaction.
TransactionCommandBehavior_before(command) == AwaitThenCallNext

\* Mutant: the useTransaction flag is ignored.
TransactionCommandBehavior_opensScopeAlways(command) == TRUE

\* TransactionCommandBehavior.handle hands db.transaction a function that
\* calls next, instead of calling next itself
TransactionCommandBehavior_opensScope(command) == ~UseTransactionFalse(command)

\* Mutant: the catch re-raises what db.transaction raised.
TransactionCommandBehavior_afterRaising(command, o) == o

\* TransactionCommandBehavior.handle from the outcome o of next (a command
\* that opts out: return next(command)) or of db.transaction (try { return
\* await db.transaction(...) } catch (error) { return err([...]) })
TransactionCommandBehavior_after(command, o) ==
    IF UseTransactionFalse(command)
    THEN o
    ELSE IF o.how = "throw"
         THEN Returned(err(<<IF o.fault.isError THEN o.fault.message
                             ELSE "Transaction failed">>))
         ELSE o

\* constructor(private ttl: number = 3600)
DefaultTtl == 3600

\* this.ttl of the behavior instance
CacheQueryBehavior_ttl(behavior) ==
    IF behavior = "CacheQueryBehavior" THEN DefaultTtl ELSE 60

IsCacheQueryBehavior(behavior) ==
    behavior \in {"CacheQueryBehavior", "CacheQueryBehavior60"}

\* 'useCache' in query && query.useCache === false
UseCacheFalse(query) == "useCache" \in DOMAIN query /\ query.useCache = FALSE

\* JSON.stringify(query): the own properties of the query object
JSON_stringify(query) ==
    "{\"value\":" \o ToString(query.value)
    \o (IF "useCache" \in DOMAIN query
        THEN ",\"useCache\":" \o (IF query.useCache THEN "true" ELSE "false")
        ELSE "")
    \o "}"

\* `query:${query.constructor.name}:${JSON.stringify(query)}`
CacheKey(query) == "query:" \o query.name \o ":" \o JSON_stringify(query)

\* cache.get({ key }): the value stored under the key, null when there is none
Cache_get(entries, key) == IF key \in DOMAIN entries THEN entries[key].value ELSE Null

\* Mutant: the entry is stored under a key that leaves the payload out.
Cache_setByName(entries, key, value, ttl) ==
    [k \in (DOMAIN entries) \cup {"query:TestQuery"} |->
        IF k = "query:TestQuery" THEN [value |-> value, ttl |-> ttl] ELSE entries[k]]

\* cache.set({ key, value, ttl })
Cache_set(entries, key, value, ttl) ==
    [k \in (DOMAIN entries) \cup {key} |->
        IF k = key THEN [value |-> value, ttl |-> ttl] ELSE entries[k]]

\* Mutant: nothing counts as a hit.
CacheQueryBehavior_isHitNever(cached) == FALSE

\* Mutant: a null read from the cache counts as a hit (cached !== undefined).
CacheQueryBehavior_isHitNullToo(cached) == TRUE

\* cached !== null
CacheQueryBehavior_isHit(cached) == cached # Null

\* CacheQueryBehavior.handle: a query that opts out has next called at once;
\* otherwise the behavior awaits the import of the cache service and
\* cache.get before anything else
CacheQueryBehavior_before(query) ==
    IF UseCacheFalse(query) THEN CallNext ELSE AwaitThenCallNext

\* CacheQueryBehavior.handle reads the cache before it calls next
CacheQueryBehavior_readsCache(query) == ~UseCacheFalse(query)

\* CacheQueryBehavior.handle when next has raised, or for a query that opts
\* out (return next(query)): the outcome of next
CacheQueryBehavior_after(query, o) == o

\* Mutant: the store sits in a finally block and runs when next has raised too.
CacheQueryBehavior_storesResultAlways(query, o) == ~UseCacheFalse(query)

\* CacheQueryBehavior.handle stores the value next has returned
CacheQueryBehavior_storesResult(query, o) == ~UseCacheFalse(query) /\ o.how = "return"

\* A console record: stream is "log" (console.log) or "error"
\* (console.error); text is the message up to the type name (the elapsed
\* time "(<n>ms)" that follows it depends on the clock and is left out).
Record(stream, text) == [stream |-> stream, text |-> text]

\* LoggingCommandBehavior.handle: the record written before next is called
LoggingCommandBehavior_logBefore(command) ==
    <<Record("log", "[Command] Executing: " \o command.name)>>

\* Mutant: the outcome record does not depend on the outcome.
LoggingCommandBehavior_logAfterAlwaysCompleted(command, o) ==
    <<Record("log", "[Command] Completed: " \o command.name)>>

\* LoggingCommandBehavior.handle: the record written once next has settled
LoggingCommandBehavior_logAfter(command, o) ==
    IF o.how = "return"
    THEN IF isOk(o.result)
         THEN <<Record("log", "[Command] Completed: " \o command.name)>>
         ELSE <<Record("log", "[Command] Failed: " \o command.name)>>
    ELSE <<Record("error", "[Command] Failed: " \o command.name)>>

\* LoggingQueryBehavior.handle: the record written before next is called
LoggingQueryBehavior_logBefore(query) ==
    <<Record("log", "[Query] Executing: " \o query.name)>>

\* LoggingQueryBehavior.handle: the record written once next has settled
LoggingQueryBehavior_logAfter(query, o) ==
    IF o.how = "return"
    THEN <<Record("log", "[Query] Completed: " \o query.name)>>
    ELSE <<Record("error", "[Query] Failed: " \o query.name)>>

\* A custom behavior as in the README (AuditBehavior): awaits next and
\* returns its result.
PassBehavior_before(message) == CallNext

PassBehavior_after(message, o) == o

\* A custom behavior that returns its own result without calling next.
ShortCircuitResult(busKind) ==
    IF busKind = "command" THEN err(<<"Rejected by behavior">>) ELSE Bare(-1)

ShortCircuitBehavior_before(busKind, message) == Finish(Returned(ShortCircuitResult(busKind)))

\* A custom behavior that raises before (instead of) calling next.
ThrowBeforeBehavior_before(message) == Finish(Thrown(NewError("behavior failed", "behavior")))

\* A custom behavior that raises after next has returned; a fault raised
\* by next passes through it.
ThrowAfterBehavior_before(message) == CallNext

ThrowAfterBehavior_after(message, o) ==
    IF o.how = "return" THEN Thrown(NewError("behavior failed late", "behavior")) ELSE o

\* behavior.handle(message, next), up to the call of next
Behavior_before(busKind, behavior, message) ==
    CASE behavior = "ValidationCommandBehavior" -> ValidationCommandBehavior_before(message)
      [] behavior = "LoggingCommandBehavior" -> LoggingCommandBehavior_before(message)
      [] behavior = "TransactionCommandBehavior" -> TransactionCommandBehavior_before(message)
      [] behavior = "LoggingQueryBehavior" -> LoggingQueryBehavior_before(message)
      [] IsCacheQueryBehavior(behavior) -> CacheQueryBehavior_before(message)
      [] behavior = "ShortCircuitBehavior" -> ShortCircuitBehavior_before(busKind, message)
      [] behavior = "ThrowBeforeBehavior" -> ThrowBeforeBehavior_before(message)
      [] behavior = "ThrowAfterBehavior" -> ThrowAfterBehavior_before(message)
      [] OTHER -> PassBehavior_before(message)

\* behavior.handle(message, next) runs next inside db.transaction
Behavior_opensScope(behavior, message) ==
    behavior = "TransactionCommandBehavior" /\ TransactionCommandBehavior_opensScope(message)

\* behavior.handle(message, next) reads the cache before it calls next
Behavior_readsCache(behavior, message) ==
    IsCacheQueryBehavior(behavior) /\ CacheQueryBehavior_readsCache(message)

\* behavior.handle(message, next) stores the outcome o of next in the cache
Behavior_storesResult(behavior, message, o) ==
    IsCacheQueryBehavior(behavior) /\ CacheQueryBehavior_storesResult(message, o)

\* the console records behavior.handle(message, next) writes before it calls next
Behavior_logBefore(behavior, message) ==
    CASE behavior = "LoggingCommandBehavior" -> LoggingCommandBehavior_logBefore(message)
      [] behavior = "LoggingQueryBehavior" -> LoggingQueryBehavior_logBefore(message)
      [] OTHER -> <<>>

\* the console records behavior.handle(message, next) writes once next has
\* settled with o
Behavior_logAfter(behavior, message, o) ==
    CASE behavior = "LoggingCommandBehavior" -> LoggingCommandBehavior_logAfter(message, o)
      [] behavior = "LoggingQueryBehavior" -> LoggingQueryBehavior_logAfter(message, o)
      [] OTHER -> <<>>

\* behavior.handle(message, next), from the outcome o of next
Behavior_after(behavior, message, o) ==
    CASE behavior = "ValidationCommandBehavior" -> ValidationCommandBehavior_after(message, o)
      [] behavior = "LoggingCommandBehavior" -> LoggingCommandBehavior_after(message, o)
      [] behavior = "TransactionCommandBehavior" -> TransactionCommandBehavior_after(message, o)
      [] behavior = "LoggingQueryBehavior" -> LoggingQueryBehavior_after(message, o)
      [] IsCacheQueryBehavior(behavior) -> CacheQueryBehavior_after(message, o)
      [] behavior = "ThrowAfterBehavior" -> ThrowAfterBehavior_after(message, o)
      [] OTHER -> PassBehavior_after(message, o)

(***************************************************************************)
(* Map and array operations of the bus state                               *)
(***************************************************************************)
EmptyMap == [k \in {} |-> ""]

\* Mutant: a key already present keeps its value.
MapSetIfAbsent(m, key, value) ==
    [k \in (DOMAIN m) \cup {key} |-> IF k \in DOMAIN m THEN m[k] ELSE value]

\* Map.set(key, value)
MapSet(m, key, value) ==
    [k \in (DOMAIN m) \cup {key} |-> IF k = key THEN value ELSE m[k]]

\* Map.get(key) is undefined exactly when the key is absent
MapHas(m, key) == key \in DOMAIN m

\* Array.push(x)
Push(array, x) == Append(array, x)

(***************************************************************************)
(* buildPipeline: the composed closure.  The innermost stage invokes the   *)
(* handler; the loop wraps it with the behaviors from the last to the      *)
(* first.  index is the position of the behavior in the chain.             *)
(***************************************************************************)
\* Mutant: the loop runs from the first behavior to the last, so that the
\* last behavior ends up outermost.
RECURSIVE WrapBehaviorsForward(_, _, _)
WrapBehaviorsForward(chain, i, pipeline) ==
    IF i < 1
    THEN pipeline
    ELSE WrapBehaviorsForward(chain, i - 1,
            [stage |-> "behavior", behavior |-> chain[Len(chain) - i + 1],
             index |-> Len(chain) - i + 1, next |-> pipeline])

RECURSIVE WrapBehaviors(_, _, _)
WrapBehaviors(chain, i, pipeline) ==
    IF i < 1
    THEN pipeline
    ELSE WrapBehaviors(chain, i - 1,
            [stage |-> "behavior", behavior |-> chain[i], index |-> i, next |-> pipeline])

\* CommandBus.buildPipeline
CommandBus_buildPipeline(chain, handler) ==
    WrapBehaviors(chain, Len(chain), [stage |-> "commandHandler", handler |-> handler])

\* QueryBus.buildPipeline
QueryBus_buildPipeline(chain, handler) ==
    WrapBehaviors(chain, Len(chain), [stage |-> "queryHandler", handler |-> handler])

\* Mutant: the innermost stage without its try/catch.
CommandBus_innermostUnguarded(handler, cmd) == CommandHandler_handle(handler, cmd)

\* Mutant: the catch reports the message of whatever was raised.
CommandBus_innermostAnyMessage(handler, cmd) ==
    LET o == CommandHandler_handle(handler, cmd) IN
    IF o.how = "throw" THEN Returned(err(<<o.fault.message>>)) ELSE o

\* The innermost stage of the command pipeline: try { return await
\* handler.handle(cmd) } catch (error) { return err([...]) }
CommandBus_innermost(handler, cmd) ==
    LET o == CommandHandler_handle(handler, cmd) IN
    IF o.how = "throw"
    THEN Returned(err(<<IF o.fault.isError THEN o.fault.message
                        ELSE "Command execution failed">>))
    ELSE o

\* Mutant: the query pipeline converts a fault as the command pipeline does.
QueryBus_innermostGuarded(handler, q) ==
    LET o == QueryHandler_handle(handler, q) IN
    IF o.how = "throw" THEN Returned(err(<<o.fault.message>>)) ELSE o

\* The innermost stage of the query pipeline: (q) => handler.handle(q)
QueryBus_innermost(handler, q) == QueryHandler_handle(handler, q)

(***************************************************************************)
(* Tasks                                                                   *)
(*   mode "call":     suspended in the behavior on top of the stack, which *)
(*                    will call next (the closure cur) when it resumes     *)
(*   mode "begin":    db.transaction has been called by the behavior on    *)
(*                    top of the stack and has not opened the transaction  *)
(*   mode "handling": the handler has been invoked and has not settled     *)
(*   mode "ret":      a stage has settled with out; the behavior on top of *)
(*                    the stack resumes from its await next(...)           *)
(*                    (a frame "db.transaction" is a transaction that is   *)
(*                    open: the service commits it or rolls it back)       *)
(*   mode "done":     execute has settled with out                         *)
(* trace, invoked, latest and chain are history: the stages entered and    *)
(* left, the handler invocations, and the handler last registered under    *)
(* the identifier and the behaviors array when execute was called.         *)
(* log is what the dispatch has written to the console: each record with   *)
(* the position at of the behavior that wrote it and the number pos of     *)
(* trace events that came before it.                                       *)
(***************************************************************************)
NoCall == [stage |-> "none"]

Idle ==
    [mode |-> "idle", msg |-> [name |-> "", value |-> 0], cur |-> NoCall,
     stack |-> <<>>, out |-> Pending, trace |-> <<>>, invoked |-> <<>>,
     latest |-> "", chain |-> <<>>, log |-> <<>>]

\* a task is in flight from its call of execute until execute settles
InFlight(t) == tasks[t].mode \in {"call", "handling", "ret"}

Event(ev, at) == [ev |-> ev, at |-> at]

\* the records written by the behavior at position at after pos trace events
Written(records, at, pos) ==
    [k \in 1..Len(records) |->
        [stream |-> records[k].stream, text |-> records[k].text, at |-> at, pos |-> pos]]

\* mode after a stage has settled with the frames in stack still waiting
Settle(stack) == IF stack = <<>> THEN "done" ELSE "ret"

\* Mutant: the identifier does not depend on the value dispatched.
ConstructorNameFixed(message) == "TestCommand"

\* command.constructor.name / query.constructor.name
ConstructorName(message) == message.name

\* Mutant: the bus calls every stage, whether or not the behavior calls next.
RECURSIVE CallEveryStage(_, _)
CallEveryStage(busKind, task) ==
    LET p == task.cur IN
    IF p.stage = "behavior"
    THEN CallEveryStage(busKind,
            [task EXCEPT !.cur = p.next,
                         !.stack = Append(task.stack,
                                          [behavior |-> p.behavior, index |-> p.index]),
                         !.trace = task.trace \o <<Event("enter", p.index),
                                                   Event("next", p.index)>>])
    ELSE [task EXCEPT !.mode = "handling",
                      !.invoked = Append(task.invoked,
                                         [handler |-> p.handler, arg |-> task.msg]),
                      !.trace = Append(task.trace, Event("handler", 0))]

\* Mutant: the innermost stage looks the handler up when it runs, not when
\* execute was called.
RECURSIVE CallResolvingLate(_, _)
CallResolvingLate(busKind, task) ==
    LET p == task.cur IN
    IF p.stage = "behavior"
    THEN LET r == Behavior_before(busKind, p.behavior, task.msg)
             entered == [task EXCEPT
                            !.trace = Append(task.trace, Event("enter", p.index)),
                            !.log = task.log \o
                                    Written(Behavior_logBefore(p.behavior, task.msg),
                                            p.index, Len(task.trace) + 1)]
         IN
         IF ~r.callsNext
         THEN [entered EXCEPT !.cur = NoCall,
                              !.mode = Settle(task.stack),
                              !.out = r.out,
                              !.trace = Append(entered.trace, Event("exit", p.index))]
         ELSE LET pushed == [entered EXCEPT
                                !.cur = p.next,
                                !.stack = Append(task.stack,
                                                 [behavior |-> p.behavior, index |-> p.index])]
              IN
              IF r.suspends
              THEN [pushed EXCEPT !.mode = "call"]
              ELSE CallResolvingLate(busKind, [pushed EXCEPT
                        !.trace = Append(pushed.trace, Event("next", p.index))])
    ELSE [task EXCEPT !.mode = "handling",
                      !.invoked = Append(task.invoked,
                                         [handler |-> handlers[task.msg.name],
                                          arg |-> task.msg]),
                      !.trace = Append(task.trace, Event("handler", 0))]

\* pipeline(message): the call of the closure task.cur and everything that
\* runs before the task is suspended.  A stage async (m) => behavior.handle(m, next)
\* runs the behavior up to its call of next, which calls the next stage in
\* turn; the innermost stage invokes the handler.
RECURSIVE Call(_, _)
Call(busKind, task) ==
    LET p == task.cur IN
    IF p.stage = "behavior"
    THEN LET r == Behavior_before(busKind, p.behavior, task.msg)
             entered == [task EXCEPT
                            !.trace = Append(task.trace, Event("enter", p.index)),
                            !.log = task.log \o
                                    Written(Behavior_logBefore(p.behavior, task.msg),
                                            p.index, Len(task.trace) + 1)]
         IN
         IF ~r.callsNext
         THEN [entered EXCEPT !.cur = NoCall,
                              !.mode = Settle(task.stack),
                              !.out = r.out,
                              !.trace = Append(entered.trace, Event("exit", p.index))]
         ELSE LET pushed == [entered EXCEPT
                                !.cur = p.next,
                                !.stack = Append(task.stack,
                                                 [behavior |-> p.behavior, index |-> p.index])]
              IN
              IF r.suspends
              THEN [pushed EXCEPT !.mode = "call"]
              ELSE Call(busKind, [pushed EXCEPT
                                    !.trace = Append(pushed.trace, Event("next", p.index))])
    ELSE [task EXCEPT !.mode = "handling",
                      !.invoked = Append(task.invoked,
                                         [handler |-> p.handler, arg |-> task.msg]),
                      !.trace = Append(task.trace, Event("handler", 0))]

\* Mutant: the command bus raises as the query bus does.
CommandBus_notFoundRaises(commandIdentifier) ==
    Thrown(HandlerNotFoundError("command", commandIdentifier))

\* CommandBus.execute: no handler under the identifier
CommandBus_notFound(commandIdentifier) ==
    Returned(err(<<"No handler registered for command: " \o commandIdentifier>>))

\* Mutant: the fault names the wrong category.
QueryBus_notFoundAsCommand(queryIdentifier) ==
    Thrown(HandlerNotFoundError("command", queryIdentifier))

\* QueryBus.execute: no handler under the identifier
QueryBus_notFound(queryIdentifier) ==
    Thrown(HandlerNotFoundError("query", queryIdentifier))

\* no Result object yet
NoSubject == [obj |-> NoResult, ctor |-> "", val |-> 0, list |-> <<>>, text |-> ""]

NoObservation == [op |-> "", fn |-> "", arg |-> 0, ret |-> NoReturn]

Init ==
    /\ promises = <<>>
    /\ subject = NoSubject
    /\ observed = NoObservation
    /\ cache = EmptyMap
    /\ bus \in {"command", "query"}
    /\ handlers = EmptyMap
    /\ behaviors = <<>>
    /\ tasks = [t \in TaskIds |-> Idle]
    /\ lastReg = EmptyMap
    /\ replaced = {}
    /\ calls = 0

\* a call of the bus API by the application, MaxCalls of them at most
Admit ==
    /\ calls < MaxCalls
    /\ calls' = calls + 1

\* the history of a register call
NoteRegister(identifier, handler) ==
    /\ lastReg' = [k \in (DOMAIN lastReg) \cup {identifier} |->
                     IF k = identifier THEN handler ELSE lastReg[k]]
    /\ replaced' = IF identifier \in DOMAIN lastReg /\ lastReg[identifier] # handler
                   THEN replaced \cup {identifier}
                   ELSE replaced

\* CommandBus.register(commandIdentifier, handler)
CommandBus_register(commandIdentifier, handler) ==
    /\ bus = "command"
    /\ Admit
    /\ handlers' = MapSet(handlers, commandIdentifier, handler)
    /\ NoteRegister(commandIdentifier, handler)
    /\ UNCHANGED <<promises, subject, observed, cache, bus, behaviors, tasks>>

\* QueryBus.register(queryIdentifier, handler)
QueryBus_register(queryIdentifier, handler) ==
    /\ bus = "query"
    /\ Admit
    /\ handlers' = MapSet(handlers, queryIdentifier, handler)
    /\ NoteRegister(queryIdentifier, handler)
    /\ UNCHANGED <<promises, subject, observed, cache, bus, behaviors, tasks>>

\* CommandBus.use(behavior)
CommandBus_use(behavior) ==
    /\ bus = "command"
    /\ Admit
    /\ behaviors' = Push(behaviors, behavior)
    /\ UNCHANGED <<promises, subject, observed, cache, bus, handlers, tasks, lastReg, replaced>>

\* QueryBus.use(behavior)
QueryBus_use(behavior) ==
    /\ bus = "query"
    /\ Admit
    /\ behaviors' = Push(behaviors, behavior)
    /\ UNCHANGED <<promises, subject, observed, cache, bus, handlers, tasks, lastReg, replaced>>

\* the task record of a new execute call
NewTask(message) ==
    [Idle EXCEPT !.msg = message,
                 !.latest = IF message.name \in DOMAIN lastReg
                            THEN lastReg[message.name] ELSE "",
                 !.chain = behaviors]

\* the first free task id
FreeTask(t) ==
    /\ tasks[t].mode = "idle"
    /\ \A u \in TaskIds : u < t => tasks[u].mode # "idle"

\* Mutant: buildPipeline takes the behaviors off the array as it wraps them
\* (while (this.behaviors.length) ... this.behaviors.pop()).
CommandBus_executeConsuming(t, command) ==
    /\ bus = "command"
    /\ FreeTask(t)
    /\ Admit
    /\ LET commandIdentifier == ConstructorName(command) IN
       IF ~MapHas(handlers, commandIdentifier)
       THEN /\ tasks' = [tasks EXCEPT ![t] =
                [NewTask(command) EXCEPT !.mode = "done",
                                         !.out = CommandBus_notFound(commandIdentifier)]]
            /\ behaviors' = behaviors
       ELSE /\ tasks' = [tasks EXCEPT ![t] =
                Call(bus, [NewTask(command) EXCEPT
                             !.cur = CommandBus_buildPipeline(behaviors,
                                                              handlers[commandIdentifier])])]
            /\ behaviors' = <<>>
    /\ UNCHANGED <<promises, subject, observed, cache, bus, handlers, lastReg, replaced>>

\* Mutant: the handler is looked up by the innermost stage, after the
\* behaviors have been entered.
CommandBus_executeChainFirst(t, command) ==
    /\ bus = "command"
    /\ FreeTask(t)
    /\ Admit
    /\ LET commandIdentifier == ConstructorName(command) IN
       IF ~MapHas(handlers, commandIdentifier)
       THEN tasks' = [tasks EXCEPT ![t] =
                [NewTask(command) EXCEPT
                    !.mode = "done",
                    !.out = CommandBus_notFound(commandIdentifier),
                    !.trace = [k \in 1..(2 * Len(behaviors)) |->
                                  IF k <= Len(behaviors)
                                  THEN Event("enter", k)
                                  ELSE Event("exit", 2 * Len(behaviors) + 1 - k)]]]
       ELSE tasks' = [tasks EXCEPT ![t] =
                Call(bus, [NewTask(command) EXCEPT
                             !.cur = CommandBus_buildPipeline(behaviors,
                                                              handlers[commandIdentifier])])]
    /\ UNCHANGED <<promises, subject, observed, cache, bus, handlers, behaviors, lastReg, replaced>>

\* CommandBus.execute(command), up to the first await that suspends it
CommandBus_execute(t, command) ==
    /\ bus = "command"
    /\ FreeTask(t)
    /\ Admit
    /\ LET commandIdentifier == ConstructorName(command) IN
       IF ~MapHas(handlers, commandIdentifier)
       THEN tasks' = [tasks EXCEPT ![t] =
                [NewTask(command) EXCEPT !.mode = "done",
                                         !.out = CommandBus_notFound(commandIdentifier)]]
       ELSE tasks' = [tasks EXCEPT ![t] =
                Call(bus, [NewTask(command) EXCEPT
                             !.cur = CommandBus_buildPipeline(behaviors,
                                                              handlers[commandIdentifier])])]
    /\ UNCHANGED <<promises, subject, observed, cache, bus, handlers, behaviors, lastReg, replaced>>

\* QueryBus.execute(query), up to the first await that suspends it
QueryBus_execute(t, query) ==
    /\ bus = "query"
    /\ FreeTask(t)
    /\ Admit
    /\ LET queryIdentifier == ConstructorName(query) IN
       IF ~MapHas(handlers, queryIdentifier)
       THEN tasks' = [tasks EXCEPT ![t] =
                [NewTask(query) EXCEPT !.mode = "done",
                                       !.out = QueryBus_notFound(queryIdentifier)]]
       ELSE tasks' = [tasks EXCEPT ![t] =
                Call(bus, [NewTask(query) EXCEPT
                             !.cur = QueryBus_buildPipeline(behaviors,
                                                            handlers[queryIdentifier])])]
    /\ UNCHANGED <<promises, subject, observed, cache, bus, handlers, behaviors, lastReg, replaced>>

\* the behavior on top of the stack resumes from the await before its call
\* of next, and calls next
ContinueBehavior(t) ==
    /\ tasks[t].mode = "call"
    /\ LET task == tasks[t]
           frame == task.stack[Len(task.stack)]
       IN
       /\ ~Behavior_opensScope(frame.behavior, task.msg)
       /\ ~Behavior_readsCache(frame.behavior, task.msg)
       /\ tasks' = [tasks EXCEPT ![t] =
            Call(bus, [task EXCEPT !.trace = Append(task.trace, Event("next", frame.index))])]
    /\ UNCHANGED <<promises, subject, observed, cache, bus, handlers, behaviors, lastReg, replaced, calls>>

\* handler.handle(message) settles; on the command bus inside the try/catch
\* of the innermost stage
HandlerSettles(t) ==
    /\ tasks[t].mode = "handling"
    /\ LET task == tasks[t]
           invocation == task.invoked[Len(task.invoked)]
           o == IF bus = "command"
                THEN CommandBus_innermost(invocation.handler, invocation.arg)
                ELSE QueryBus_innermost(invocation.handler, invocation.arg)
       IN
       tasks' = [tasks EXCEPT ![t] =
            [task EXCEPT !.cur = NoCall, !.mode = Settle(task.stack), !.out = o]]
    /\ UNCHANGED <<promises, subject, observed, cache, bus, handlers, behaviors, lastReg, replaced, calls>>

\* await next(message) settles in the behavior on top of the stack, which
\* runs to its end
ResumeBehavior(t) ==
    /\ tasks[t].mode = "ret"
    /\ LET task == tasks[t]
           n == Len(task.stack)
           frame == task.stack[n]
           rest == SubSeq(task.stack, 1, n - 1)
       IN
       /\ frame.behavior # "db.transaction"
       /\ ~Behavior_storesResult(frame.behavior, task.msg, task.out)
       /\ tasks' = [tasks EXCEPT ![t] =
            [task EXCEPT !.stack = rest,
                         !.mode = Settle(rest),
                         !.out = Behavior_after(frame.behavior, task.msg, task.out),
                         !.log = task.log \o
                                 Written(Behavior_logAfter(frame.behavior, task.msg, task.out),
                                         frame.index, Len(task.trace)),
                         !.trace = Append(task.trace, Event("exit", frame.index))]]
    /\ UNCHANGED <<promises, subject, observed, cache, bus, handlers, behaviors, lastReg, replaced, calls>>

\* TransactionCommandBehavior resumes from the await of its import and
\* calls db.transaction(async () => next(command))
TransactionCommandBehavior_callsTransaction(t) ==
    /\ tasks[t].mode = "call"
    /\ LET task == tasks[t]
           frame == task.stack[Len(task.stack)]
       IN
       /\ Behavior_opensScope(frame.behavior, task.msg)
       /\ tasks' = [tasks EXCEPT ![t] =
            [task EXCEPT !.mode = "begin",
                         !.trace = Append(task.trace, Event("transaction", frame.index))]]
    /\ UNCHANGED <<promises, subject, observed, cache, bus, handlers, behaviors, lastReg, replaced, calls>>

\* db.transaction opens a transaction and calls the function it was given,
\* which calls next
Db_transaction_begins(t) ==
    /\ tasks[t].mode = "begin"
    /\ LET task == tasks[t]
           frame == task.stack[Len(task.stack)]
       IN
       tasks' = [tasks EXCEPT ![t] =
            Call(bus, [task EXCEPT
                         !.stack = Append(task.stack, [behavior |-> "db.transaction",
                                                       index |-> frame.index]),
                         !.trace = task.trace \o <<Event("begin", frame.index),
                                                   Event("next", frame.index)>>])]
    /\ UNCHANGED <<promises, subject, observed, cache, bus, handlers, behaviors, lastReg, replaced, calls>>

\* db.transaction cannot open a transaction: it raises without having
\* called the function it was given
Db_transaction_beginFails(t, fault) ==
    /\ tasks[t].mode = "begin"
    /\ tasks' = [tasks EXCEPT ![t] =
            [tasks[t] EXCEPT !.cur = NoCall, !.mode = "ret", !.out = Thrown(fault)]]
    /\ UNCHANGED <<promises, subject, observed, cache, bus, handlers, behaviors, lastReg, replaced, calls>>

\* the function given to db.transaction has returned: the service commits
\* and db.transaction resolves with what the function returned
Db_transaction_commits(t) ==
    /\ tasks[t].mode = "ret"
    /\ LET task == tasks[t]
           n == Len(task.stack)
           frame == task.stack[n]
       IN
       /\ frame.behavior = "db.transaction"
       /\ task.out.how = "return"
       /\ tasks' = [tasks EXCEPT ![t] =
            [task EXCEPT !.stack = SubSeq(task.stack, 1, n - 1),
                         !.trace = Append(task.trace, Event("commit", frame.index))]]
    /\ UNCHANGED <<promises, subject, observed, cache, bus, handlers, behaviors, lastReg, replaced, calls>>

\* the function given to db.transaction has returned and the commit fails:
\* db.transaction raises
Db_transaction_commitFails(t, fault) ==
    /\ tasks[t].mode = "ret"
    /\ LET task == tasks[t]
           n == Len(task.stack)
           frame == task.stack[n]
       IN
       /\ frame.behavior = "db.transaction"
       /\ task.out.how = "return"
       /\ tasks' = [tasks EXCEPT ![t] =
            [task EXCEPT !.stack = SubSeq(task.stack, 1, n - 1),
                         !.out = Thrown(fault),
                         !.trace = Append(task.trace, Event("commitFailed", frame.index))]]
    /\ UNCHANGED <<promises, subject, observed, cache, bus, handlers, behaviors, lastReg, replaced, calls>>

\* the function given to db.transaction has raised: the service rolls back
\* and db.transaction raises the same fault
Db_transaction_rollsBack(t) ==
    /\ tasks[t].mode = "ret"
    /\ LET task == tasks[t]
           n == Len(task.stack)
           frame == task.stack[n]
       IN
       /\ frame.behavior = "db.transaction"
       /\ task.out.how = "throw"
       /\ tasks' = [tasks EXCEPT ![t] =
            [task EXCEPT !.stack = SubSeq(task.stack, 1, n - 1),
                         !.trace = Append(task.trace, Event("rollback", frame.index))]]
    /\ UNCHANGED <<promises, subject, observed, cache, bus, handlers, behaviors, lastReg, replaced, calls>>

\* CacheQueryBehavior resumes from the awaits of its import and of
\* cache.get: on a hit it returns the cached value, otherwise it calls next
CacheQueryBehavior_get(t) ==
    /\ tasks[t].mode = "call"
    /\ LET task == tasks[t]
           n == Len(task.stack)
           frame == task.stack[n]
           rest == SubSeq(task.stack, 1, n - 1)
           cached == Cache_get(cache, CacheKey(task.msg))
       IN
       /\ Behavior_readsCache(frame.behavior, task.msg)
       /\ IF CacheQueryBehavior_isHit(cached)
          THEN tasks' = [tasks EXCEPT ![t] =
                [task EXCEPT
                    !.cur = NoCall,
                    !.stack = rest,
                    !.mode = Settle(rest),
                    !.out = Returned(cached),
                    !.log = task.log \o
                            Written(<<Record("log", "[Cache] Hit for: " \o task.msg.name)>>,
                                    frame.index, Len(task.trace) + 1),
                    !.trace = task.trace \o <<Event("hit", frame.index),
                                              Event("exit", frame.index)>>]]
          ELSE tasks' = [tasks EXCEPT ![t] =
                Call(bus, [task EXCEPT
                             !.trace = task.trace \o <<Event("miss", frame.index),
                                                       Event("next", frame.index)>>])]
    /\ UNCHANGED <<promises, subject, observed, cache, bus, handlers, behaviors, lastReg, replaced, calls>>

\* next has returned in CacheQueryBehavior: the behavior stores the value
\* with its time-to-live (await cache.set) and returns it
CacheQueryBehavior_set(t) ==
    /\ tasks[t].mode = "ret"
    /\ LET task == tasks[t]
           n == Len(task.stack)
           frame == task.stack[n]
           rest == SubSeq(task.stack, 1, n - 1)
       IN
       /\ Behavior_storesResult(frame.behavior, task.msg, task.out)
       /\ cache' = Cache_set(cache, CacheKey(task.msg), task.out.result,
                             ToString(CacheQueryBehavior_ttl(frame.behavior)) \o " seconds")
       /\ tasks' = [tasks EXCEPT ![t] =
            [task EXCEPT
                !.stack = rest,
                !.mode = Settle(rest),
                !.log = task.log \o
                        Written(<<Record("log", "[Cache] Miss for: " \o task.msg.name)>>,
                                frame.index, Len(task.trace) + 1),
                !.trace = task.trace \o <<Event("set", frame.index),
                                          Event("exit", frame.index)>>]]
    /\ UNCHANGED <<promises, subject, observed, bus, handlers, behaviors, lastReg, replaced, calls>>

\* the time-to-live of an entry has elapsed: the cache service drops it
Cache_expire(key) ==
    /\ key \in DOMAIN cache
    /\ cache' = [k \in (DOMAIN cache) \ {key} |-> cache[k]]
    /\ UNCHANGED <<promises, subject, observed, bus, handlers, behaviors, tasks, lastReg, replaced, calls>>

\* the caller's await of execute resumes with the outcome
Collect(t) ==
    /\ tasks[t].mode = "done"
    /\ tasks' = [tasks EXCEPT ![t] = Idle]
    /\ UNCHANGED <<promises, subject, observed, cache, bus, handlers, behaviors, lastReg, replaced, calls>>

Next ==
    \/ \E id \in CommandNames, h \in CommandHandlers : CommandBus_register(id, h)
    \/ \E id \in QueryNames, h \in QueryHandlers : QueryBus_register(id, h)
    \/ \E b \in CommandBehaviors : CommandBus_use(b)
    \/ \E b \in QueryBehaviors : QueryBus_use(b)
    \/ \E t \in TaskIds, c \in Commands : CommandBus_execute(t, c)
    \/ \E t \in TaskIds, q \in Queries : QueryBus_execute(t, q)
    \/ \E t \in TaskIds : ContinueBehavior(t)
    \/ \E t \in TaskIds : HandlerSettles(t)
    \/ \E t \in TaskIds : ResumeBehavior(t)
    \/ \E t \in TaskIds : Collect(t)

Spec == Init /\ [][Next]_vars

(***************************************************************************)
(* A command bus whose chain is built from TransactionCommandBehavior and  *)
(* custom behaviors, with the transaction service of the application: the  *)
(* service opens a transaction or fails to, and commits it or fails to.    *)
(***************************************************************************)
InitTx == Init /\ bus = "command"

NextTx ==
    \/ \E h \in CommandHandlers : CommandBus_register("TestCommand", h)
    \/ \E b \in TxBehaviors : CommandBus_use(b)
    \/ \E t \in TaskIds, c \in TxCommands : CommandBus_execute(t, c)
    \/ \E t \in TaskIds : ContinueBehavior(t)
    \/ \E t \in TaskIds : TransactionCommandBehavior_callsTransaction(t)
    \/ \E t \in TaskIds : Db_transaction_begins(t)
    \/ \E t \in TaskIds, f \in DbFaults : Db_transaction_beginFails(t, f)
    \/ \E t \in TaskIds : Db_transaction_commits(t)
    \/ \E t \in TaskIds, f \in DbFaults : Db_transaction_commitFails(t, f)
    \/ \E t \in TaskIds : Db_transaction_rollsBack(t)
    \/ \E t \in TaskIds : HandlerSettles(t)
    \/ \E t \in TaskIds : ResumeBehavior(t)
    \/ \E t \in TaskIds : Collect(t)

SpecTx == InitTx /\ [][NextTx]_vars

(***************************************************************************)
(* A query bus whose chain is built from CacheQueryBehavior and custom     *)
(* behaviors, with the cache service of the application: it keeps what is  *)
(* stored under a key until the time-to-live of the entry has elapsed.     *)
(***************************************************************************)
InitCache == Init /\ bus = "query"

CacheKeys == {CacheKey(q) : q \in CacheQueries}

NextCache ==
    \/ \E h \in CacheHandlers : QueryBus_register("TestQuery", h)
    \/ \E b \in CacheBehaviors : QueryBus_use(b)
    \/ \E t \in TaskIds, q \in CacheQueries : QueryBus_execute(t, q)
    \/ \E t \in TaskIds : CacheQueryBehavior_get(t)
    \/ \E t \in TaskIds : CacheQueryBehavior_set(t)
    \/ \E key \in CacheKeys : Cache_expire(key)
    \/ \E t \in TaskIds : HandlerSettles(t)
    \/ \E t \in TaskIds : ResumeBehavior(t)
    \/ \E t \in TaskIds : Collect(t)

SpecCache == InitCache /\ [][NextCache]_vars

(***************************************************************************)
(* A caller of the Result model: it constructs a Result with ok, err,      *)
(* errMessage or new Err, and applies the operations of the Result to it.  *)
(***************************************************************************)
OkValues == {0, 5, -5, 10}

ErrorLists == {<<>>, <<"a">>, <<"a", "b">>, <<"b", "a">>}

Messages == {"a", "b"}

DefaultValues == {0, 9}

busVars == <<promises, cache, bus, handlers, behaviors, tasks, lastReg, replaced, calls>>

InitResult == Init /\ bus = "command"

\* const r = ok(v)
Result_ok(v) ==
    /\ subject' = [NoSubject EXCEPT !.obj = ok(v), !.ctor = "ok", !.val = v]
    /\ observed' = NoObservation
    /\ UNCHANGED busVars

\* const r = err(e)
Result_err(e) ==
    /\ subject' = [NoSubject EXCEPT !.obj = err(e), !.ctor = "err", !.list = e]
    /\ observed' = NoObservation
    /\ UNCHANGED busVars

\* const r = errMessage(m)
Result_errMessage(m) ==
    /\ subject' = [NoSubject EXCEPT !.obj = errMessage(m), !.ctor = "errMessage", !.text = m]
    /\ observed' = NoObservation
    /\ UNCHANGED busVars

\* const r = new Err(m), m a string
Result_newErr(m) ==
    /\ subject' = [NoSubject EXCEPT !.obj = ErrOfString(m), !.ctor = "new Err", !.text = m]
    /\ observed' = NoObservation
    /\ UNCHANGED busVars

\* the caller applies a method to the object: the object is as the method
\* leaves it, and the caller sees what the method returns or raises
Applied(op, fn, arg, call) ==
    /\ subject' = [subject EXCEPT !.obj = call.self]
    /\ observed' = [op |-> op, fn |-> fn, arg |-> arg, ret |-> call.ret]
    /\ UNCHANGED busVars

\* isOk(r) / r.isOk()
Caller_isOk ==
    /\ subject.ctor # ""
    /\ Applied("isOk", "", 0, Result_isOk(subject.obj))

\* isErr(r) / r.isErr()
Caller_isErr ==
    /\ subject.ctor # ""
    /\ Applied("isErr", "", 0, Result_isErr(subject.obj))

\* r.map(fn)
Caller_map(fn) ==
    /\ subject.ctor # ""
    /\ Applied("map", fn, 0, Result_map(subject.obj, fn))

\* r.unwrapOr(d)
Caller_unwrapOr(d) ==
    /\ subject.ctor # ""
    /\ Applied("unwrapOr", "", d, Result_unwrapOr(subject.obj, d))

\* r.unwrap()
Caller_unwrap ==
    /\ subject.ctor # ""
    /\ Applied("unwrap", "", 0, Result_unwrap(subject.obj))

\* r.getErrors(), after isErr(r) has narrowed r to Err
Caller_getErrors ==
    /\ isErr(subject.obj)
    /\ Applied("getErrors", "", 0, Err_getErrors(subject.obj))

NextResult ==
    \/ \E v \in OkValues : Result_ok(v)
    \/ \E e \in ErrorLists : Result_err(e)
    \/ \E m \in Messages : Result_errMessage(m)
    \/ \E m \in Messages : Result_newErr(m)
    \/ Caller_isOk
    \/ Caller_isErr
    \/ \E fn \in Fns : Caller_map(fn)
    \/ \E d \in DefaultValues : Caller_unwrapOr(d)
    \/ Caller_unwrap
    \/ Caller_getErrors

SpecResult == InitResult /\ [][NextResult]_vars

(***************************************************************************)
(* The application: the buses as the provider builds them, handlers        *)
(* derived from CommandHandlerBase and QueryHandlerBase, which register    *)
(* themselves when constructed, and dispatches of class instances and of   *)
(* plain object literals.  A type name is the sequence of its characters.  *)
(***************************************************************************)
TypeNameParts ==
    [Test       |-> <<"T", "e", "s", "t">>,
     CreateUser |-> <<"C", "r", "e", "a", "t", "e", "U", "s", "e", "r">>,
     Command    |-> <<"C", "o", "m", "m", "a", "n", "d">>,
     Query      |-> <<"Q", "u", "e", "r", "y">>,
     Handler    |-> <<"H", "a", "n", "d", "l", "e", "r">>]

\* this.constructor.name of the handler classes the application defines
HandlerClasses ==
    LET part == TypeNameParts IN
    { part.CreateUser \o part.Command \o part.Handler,
      part.Test \o part.Command \o part.Handler,
      part.Command \o part.Handler,
      part.Test \o part.Handler,
      part.Test \o part.Query \o part.Handler,
      part.Query \o part.Handler }

\* the string of the characters
Text(chars) == Join(chars, "")

\* name.match(/^(.+)<suffix>$/): the match and its group 1, a prefix of at
\* least one character
Match(name, suffix) ==
    LET n == Len(name)
        m == Len(suffix)
    IN
    IF n > m /\ SubSeq(name, n - m + 1, n) = suffix
    THEN [matched |-> TRUE, group |-> SubSeq(name, 1, n - m)]
    ELSE [matched |-> FALSE, group |-> <<>>]

\* Mutant: the suffix is stripped and "Command" is not appended.
CommandHandlerBase_getCommandNameStripped(className) ==
    LET match == Match(className, TypeNameParts.Command \o TypeNameParts.Handler) IN
    IF match.matched THEN Text(match.group) ELSE Text(className)

\* CommandHandlerBase.getCommandName
CommandHandlerBase_getCommandName(className) ==
    LET match == Match(className, TypeNameParts.Command \o TypeNameParts.Handler) IN
    IF match.matched THEN Text(match.group) \o "Command" ELSE Text(className)

\* QueryHandlerBase.getQueryName
QueryHandlerBase_getQueryName(className) ==
    LET match == Match(className, TypeNameParts.Query \o TypeNameParts.Handler) IN
    IF match.matched THEN Text(match.group) \o "Query" ELSE Text(className)

\* Mutant: the provider adds the logging behavior first.
CQRSProvider_commandBusLoggingFirst ==
    Push(Push(Push(<<>>, "LoggingCommandBehavior"), "ValidationCommandBehavior"),
         "TransactionCommandBehavior")

\* CQRSProvider.register: the behaviors of the CommandBus singleton
CQRSProvider_commandBus ==
    Push(Push(Push(<<>>, "ValidationCommandBehavior"), "LoggingCommandBehavior"),
         "TransactionCommandBehavior")

\* CQRSProvider.register: the behaviors of the QueryBus singleton
CQRSProvider_queryBus == Push(<<>>, "LoggingQueryBehavior")

\* the commands the application dispatches: an instance of the class
\* CreateUserCommand, the plain object literal of the Quick Start
\* (constructor Object), and instances of TestCommand that validate
AppCommands ==
    { [name |-> "CreateUserCommand", value |-> 5, validate |-> "none"],
      [name |-> "Object", value |-> 5, validate |-> "none"],
      [name |-> "TestCommand", value |-> 5, validate |-> "check"],
      [name |-> "TestCommand", value |-> -5, validate |-> "check"] }

AppQueries ==
    { [name |-> "TestQuery", value |-> 5],
      [name |-> "Object", value |-> 5] }

\* the buses as the container hands them to the application
InitApp ==
    /\ promises = <<>>
    /\ subject = NoSubject
    /\ observed = NoObservation
    /\ cache = EmptyMap
    /\ bus \in {"command", "query"}
    /\ handlers = EmptyMap
    /\ behaviors = IF bus = "command" THEN CQRSProvider_commandBus ELSE CQRSProvider_queryBus
    /\ tasks = [t \in TaskIds |-> Idle]
    /\ lastReg = EmptyMap
    /\ replaced = {}
    /\ calls = 0

\* new H(commandBus), H derived from CommandHandlerBase
CommandHandlerBase_constructor(className) ==
    /\ bus = "command"
    /\ CommandBus_register(CommandHandlerBase_getCommandName(className), Text(className))

\* new H(queryBus), H derived from QueryHandlerBase
QueryHandlerBase_constructor(className) ==
    /\ bus = "query"
    /\ QueryBus_register(QueryHandlerBase_getQueryName(className), Text(className))

\* Nothing raises inside the transactional scope of the provider's chain
\* (the innermost stage catches what the handler raises), so that the
\* service never rolls back.
NextApp ==
    \/ \E c \in HandlerClasses : CommandHandlerBase_constructor(c)
    \/ \E c \in HandlerClasses : QueryHandlerBase_constructor(c)
    \/ QueryBus_use("CacheQueryBehavior")
    \/ \E t \in TaskIds, c \in AppCommands : CommandBus_execute(t, c)
    \/ \E t \in TaskIds, q \in AppQueries : QueryBus_execute(t, q)
    \/ \E t \in TaskIds : ContinueBehavior(t)
    \/ \E t \in TaskIds : TransactionCommandBehavior_callsTransaction(t)
    \/ \E t \in TaskIds : Db_transaction_begins(t)
    \/ \E t \in TaskIds, f \in {NewError("connection lost", "db")} : Db_transaction_beginFails(t, f)
    \/ \E t \in TaskIds : Db_transaction_commits(t)
    \/ \E t \in TaskIds, f \in {NewError("connection lost", "db")} : Db_transaction_commitFails(t, f)
    \/ \E t \in TaskIds : CacheQueryBehavior_get(t)
    \/ \E t \in TaskIds : CacheQueryBehavior_set(t)
    \/ \E t \in TaskIds : HandlerSettles(t)
    \/ \E t \in TaskIds : ResumeBehavior(t)

SpecApp == InitApp /\ [][NextApp]_vars

(***************************************************************************)
(* The register helpers.  registerCommandHandler and registerQueryHandler  *)
(* start app.container.make(Bus) and return; the container settles the     *)
(* promise later, and the callback given to then (bus.register) or the one *)
(* given to catch (console.error) runs in a later turn of the event loop.  *)
(* A promise is "pending", then "fulfilled" or "rejected", and at last     *)
(* "registered" (the then callback has run) or "logged" (the catch         *)
(* callback has run).                                                      *)
(***************************************************************************)

\* Mutant: the helper awaits the bus and registers before it returns.
registerCommandHandlerAwaiting(commandName, handler) ==
    /\ bus = "command"
    /\ Admit
    /\ promises' = Append(promises, [name |-> commandName, handler |-> handler,
                                     state |-> "registered", error |-> NoFault,
                                     log |-> <<>>])
    /\ handlers' = MapSet(handlers, commandName, handler)
    /\ NoteRegister(commandName, handler)
    /\ UNCHANGED <<subject, observed, cache, bus, behaviors, tasks>>

\* registerCommandHandler(app, commandName, handler): the promise of
\* app.container.make(CommandBus) is created, the callbacks are attached
\* and the function returns
registerCommandHandler(commandName, handler) ==
    /\ bus = "command"
    /\ Admit
    /\ promises' = Append(promises, [name |-> commandName, handler |-> handler,
                                     state |-> "pending", error |-> NoFault,
                                     log |-> <<>>])
    /\ UNCHANGED <<subject, observed, cache, bus, handlers, behaviors, tasks, lastReg,
                   replaced>>

\* registerQueryHandler(app, queryName, handler)
registerQueryHandler(queryName, handler) ==
    /\ bus = "query"
    /\ Admit
    /\ promises' = Append(promises, [name |-> queryName, handler |-> handler,
                                     state |-> "pending", error |-> NoFault,
                                     log |-> <<>>])
    /\ UNCHANGED <<subject, observed, cache, bus, handlers, behaviors, tasks, lastReg,
                   replaced>>

\* the container resolves the bus: the promise is fulfilled
Container_make_resolves(i) ==
    /\ i \in DOMAIN promises
    /\ promises[i].state = "pending"
    /\ promises' = [promises EXCEPT ![i].state = "fulfilled"]
    /\ UNCHANGED <<subject, observed, cache, bus, handlers, behaviors, tasks, lastReg,
                   replaced, calls>>

\* the container cannot resolve the bus: the promise is rejected
Container_make_rejects(i, error) ==
    /\ i \in DOMAIN promises
    /\ promises[i].state = "pending"
    /\ promises' = [promises EXCEPT ![i].state = "rejected", ![i].error = error]
    /\ UNCHANGED <<subject, observed, cache, bus, handlers, behaviors, tasks, lastReg,
                   replaced, calls>>

\* .then((bus) => { bus.register(name, handler) })
registerHandler_then(i) ==
    /\ i \in DOMAIN promises
    /\ promises[i].state = "fulfilled"
    /\ promises' = [promises EXCEPT ![i].state = "registered"]
    /\ handlers' = MapSet(handlers, promises[i].name, promises[i].handler)
    /\ NoteRegister(promises[i].name, promises[i].handler)
    /\ UNCHANGED <<subject, observed, cache, bus, behaviors, tasks, calls>>

\* .catch((error) => { console.error(`Failed to register command handler
\* for ${commandName}:`, error) })
registerHandler_catch(i) ==
    /\ i \in DOMAIN promises
    /\ promises[i].state = "rejected"
    /\ promises' = [promises EXCEPT
            ![i].state = "logged",
            ![i].log = <<Record("error", "Failed to register " \o bus \o " handler for "
                                         \o promises[i].name \o ":")>>]
    /\ UNCHANGED <<subject, observed, cache, bus, handlers, behaviors, tasks, lastReg,
                   replaced, calls>>

NextHelper ==
    \/ registerCommandHandler("OtherCommand", "TestHandler")
    \/ registerQueryHandler("OtherQuery", "TestHandler")
    \/ \E i \in 1..MaxCalls : Container_make_resolves(i)
    \/ \E i \in 1..MaxCalls :
            Container_make_rejects(i, NewError("Cannot resolve binding", "container"))
    \/ \E i \in 1..MaxCalls : registerHandler_then(i)
    \/ \E i \in 1..MaxCalls : registerHandler_catch(i)
    \/ \E t \in TaskIds, c \in {m \in Commands : m.validate = "none"} :
            CommandBus_execute(t, c)
    \/ \E t \in TaskIds, q \in {m \in Queries : m.name = "OtherQuery"} :
            QueryBus_execute(t, q)
    \/ \E t \in TaskIds : HandlerSettles(t)

\* The event loop runs a callback whose promise has settled; when the
\* container settles a promise, if ever, is up to the container.
SpecHelper ==
    /\ Init
    /\ [][NextHelper]_vars
    /\ \A i \in 1..MaxCalls : WF_vars(registerHandler_then(i))
    /\ \A i \in 1..MaxCalls : WF_vars(registerHandler_catch(i))

(***************************************************************************)
(* Properties                                                              *)
(***************************************************************************)
Started(task) == task.mode # "idle"

\* execute found a handler registered under the identifier of the message
Registered(task) == task.latest # ""

\* the behavior calls next (once) when it handles the message
CallsNextFor(behavior, message) == Behavior_before(bus, behavior, message).callsNext

\* the behavior calls next and hands back what next yields
Transparent(behavior, message) ==
    /\ behavior \in {"PassBehavior", "ValidationCommandBehavior",
                     "LoggingCommandBehavior", "LoggingQueryBehavior"}
    /\ CallsNextFor(behavior, message)

IsPrefix(s, t) == Len(s) <= Len(t) /\ s = SubSeq(t, 1, Len(s))

\* enter 1, next 1, ..., enter n, next n
Inward(n) ==
    [k \in 1..(2 * n) |-> IF k % 2 = 1 THEN Event("enter", (k + 1) \div 2)
                          ELSE Event("next", k \div 2)]

\* exit n, ..., exit 1
Outward(n) == [k \in 1..n |-> Event("exit", n + 1 - k)]

\* the stages of a dispatch through n behaviors that all call next
FullTrace(n) == Inward(n) \o <<Event("handler", 0)>> \o Outward(n)

\* C1: when every behavior of the chain calls next, one execute enters
\* B1, ..., Bn in the order of use, each after the one before it has called
\* next, then invokes the handler once, and the result returns through
\* Bn, ..., B1 before execute settles.
C1_BehaviorOrder ==
    \A t \in TaskIds :
        LET task == tasks[t]
            n == Len(task.chain)
        IN
        (/\ Started(task)
         /\ Registered(task)
         /\ \A i \in 1..n : CallsNextFor(task.chain[i], task.msg))
        => /\ IsPrefix(task.trace, FullTrace(n))
           /\ Len(task.invoked) <= 1
           /\ task.mode = "handling" => task.trace = Inward(n) \o <<Event("handler", 0)>>
           /\ task.mode = "done" => task.trace = FullTrace(n) /\ Len(task.invoked) = 1

C1_Witness ==
    \E t \in TaskIds :
        /\ tasks[t].mode = "done"
        /\ Len(tasks[t].chain) >= 2
        /\ tasks[t].chain[1] # tasks[t].chain[2]
        /\ Len(tasks[t].invoked) = 1
        /\ tasks[t].trace = <<Event("enter", 1), Event("next", 1), Event("enter", 2),
                              Event("next", 2), Event("handler", 0), Event("exit", 2),
                              Event("exit", 1)>>

\* C2: execute invokes only the handler registered under the type name of
\* the message, with that message, and no other handler; with an empty
\* chain it settles with exactly what the handler returned.
C2_DispatchByTypeName ==
    \A t \in TaskIds :
        LET task == tasks[t] IN
        Started(task)
        => /\ Len(task.invoked) <= 1
           /\ \A k \in 1..Len(task.invoked) :
                /\ task.invoked[k].handler = task.latest
                /\ task.invoked[k].arg = task.msg
           /\ (task.mode = "done" /\ task.chain = <<>> /\ Registered(task))
              => /\ Len(task.invoked) = 1
                 /\ LET returned == IF bus = "command"
                                    THEN CommandHandler_handle(task.latest, task.msg)
                                    ELSE QueryHandler_handle(task.latest, task.msg)
                    IN returned.how = "return" => task.out = returned

C2_Witness ==
    /\ bus = "command"
    /\ DOMAIN handlers = CommandNames
    /\ handlers["TestCommand"] = "TestHandler"
    /\ handlers["OtherCommand"] = "FailingHandler"
    /\ \E t \in TaskIds :
        /\ tasks[t].mode = "done"
        /\ tasks[t].chain = <<>>
        /\ tasks[t].msg = [name |-> "TestCommand", value |-> 5, validate |-> "check"]
        /\ tasks[t].invoked = <<[handler |-> "TestHandler", arg |-> tasks[t].msg]>>
        /\ tasks[t].out = Returned(Ok(10))

\* C3: on the command bus, when the handler raises an Error with message m,
\* the innermost stage settles with Err([m]), and so does execute when the
\* behaviors of the chain hand back what next yields.
C3_HandlerFaultBecomesErr ==
    \A t \in TaskIds :
        LET task == tasks[t] IN
        (bus = "command" /\ Len(task.invoked) = 1 /\ task.mode \in {"ret", "done"})
        => LET raised == CommandHandler_handle(task.invoked[1].handler, task.invoked[1].arg)
           IN
           (raised.how = "throw" /\ raised.fault.isError)
           => /\ task.trace[Len(task.trace)].ev = "handler"
                    => task.out = Returned(Err(<<raised.fault.message>>))
              /\ (/\ task.mode = "done"
                  /\ \A i \in 1..Len(task.chain) : Transparent(task.chain[i], task.msg))
                 => task.out = Returned(Err(<<raised.fault.message>>))

C3_Witness ==
    /\ bus = "command"
    /\ \E t \in TaskIds :
        /\ tasks[t].mode = "done"
        /\ Len(tasks[t].chain) >= 1
        /\ tasks[t].invoked = <<[handler |-> "ThrowingHandler", arg |-> tasks[t].msg]>>
        /\ tasks[t].out = Returned(Err(<<"Unexpected error">>))

\* C4: CommandBus.execute never settles with a raised fault: whatever is
\* raised inside the pipeline, by the handler or by a behavior, execute
\* returns a Result.
C4_CommandExecuteNeverRaises ==
    \A t \in TaskIds :
        (bus = "command" /\ tasks[t].mode = "done") => tasks[t].out.how = "return"

\* the text of the not-found failure for a type identifier
NotFoundText(category, identifier) ==
    CASE category = "command" /\ identifier = "TestCommand" ->
            "No handler registered for command: TestCommand"
      [] category = "command" /\ identifier = "OtherCommand" ->
            "No handler registered for command: OtherCommand"
      [] category = "query" /\ identifier = "TestQuery" ->
            "No handler registered for query: TestQuery"
      [] category = "query" /\ identifier = "OtherQuery" ->
            "No handler registered for query: OtherQuery"
      [] OTHER -> "?"

\* C5: CommandBus.execute of a command whose type identifier X has no
\* handler returns Err(["No handler registered for command: X"]) and does
\* not raise; no stage of the pipeline runs.
C5_CommandNotFoundIsErr ==
    \A t \in TaskIds :
        LET task == tasks[t] IN
        (bus = "command" /\ Started(task) /\ ~Registered(task))
        => /\ task.mode = "done"
           /\ task.out = Returned(Err(<<NotFoundText("command", task.msg.name)>>))
           /\ task.out.how = "return" /\ isErr(task.out.result)
           /\ task.invoked = <<>>

C5_Witness ==
    /\ bus = "command"
    /\ DOMAIN handlers = {"TestCommand"}
    /\ \E t \in TaskIds :
        /\ tasks[t].mode = "done"
        /\ tasks[t].msg.name = "OtherCommand"
        /\ tasks[t].out =
              Returned(Err(<<"No handler registered for command: OtherCommand">>))

\* C6: QueryBus.execute of a query whose type identifier X has no handler
\* raises a HandlerNotFoundError whose message names X and the category
\* query; it returns neither a value nor a Result.
C6_QueryNotFoundRaises ==
    \A t \in TaskIds :
        LET task == tasks[t] IN
        (bus = "query" /\ Started(task) /\ ~Registered(task))
        => /\ task.mode = "done"
           /\ task.out.how = "throw"
           /\ task.out.result = NoResult
           /\ task.out.fault.name = "HandlerNotFoundError"
           /\ task.out.fault.isError
           /\ task.out.fault.message = NotFoundText("query", task.msg.name)
           /\ task.invoked = <<>>

C6_Witness ==
    /\ bus = "query"
    /\ DOMAIN handlers = {"OtherQuery"}
    /\ \E t \in TaskIds :
        /\ tasks[t].mode = "done"
        /\ tasks[t].msg.name = "TestQuery"
        /\ tasks[t].out.how = "throw"
        /\ tasks[t].out.fault.message = "No handler registered for query: TestQuery"

\* C7: on the query bus a fault raised by the handler settles the innermost
\* stage as that fault, and a fault that has settled a stage (raised by the
\* handler or by a behavior) settles every stage outside it, and execute,
\* as that same fault.
C7_QueryFaultPropagates ==
    /\ [](\A t \in TaskIds :
            LET task == tasks[t] IN
            (/\ bus = "query"
             /\ task.mode \in {"ret", "done"}
             /\ Len(task.invoked) = 1
             /\ task.trace[Len(task.trace)].ev = "handler"
             /\ QueryHandler_handle(task.invoked[1].handler, task.invoked[1].arg).how = "throw")
            => task.out = QueryHandler_handle(task.invoked[1].handler, task.invoked[1].arg))
    /\ [][\A t \in TaskIds :
            (bus = "query" /\ tasks[t].mode = "ret" /\ tasks[t].out.how = "throw")
            => (tasks'[t].mode \in {"ret", "done"} /\ tasks'[t].out = tasks[t].out)]_vars

C7_Witness ==
    /\ bus = "query"
    /\ \E t \in TaskIds :
        /\ tasks[t].mode = "done"
        /\ Len(tasks[t].chain) = 2
        /\ \E i \in 1..2 : tasks[t].chain[i] = "LoggingQueryBehavior"
        /\ Len(tasks[t].trace) = 7
        /\ tasks[t].out = Thrown(NewError("Query failed", "handler"))

\* C8 as stated: the handler invoked is always the one passed to the most
\* recent register call for the identifier, so that a handler that has been
\* replaced is never invoked again.
C8_ReplacedHandlerNeverInvoked ==
    [][\A t \in TaskIds :
        Len(tasks'[t].invoked) > Len(tasks[t].invoked)
        => LET invocation == tasks'[t].invoked[Len(tasks'[t].invoked)] IN
           invocation.handler = lastReg'[invocation.arg.name]]_vars

\* C8 as amended: the registry holds, for every identifier, exactly the
\* handler passed to the most recent register call for it, and every
\* execute invokes only the handler that was the most recent when execute
\* was called.
C8_LastRegistrationWins ==
    /\ handlers = lastReg
    /\ \A t \in TaskIds :
        \A k \in 1..Len(tasks[t].invoked) : tasks[t].invoked[k].handler = tasks[t].latest

C8_Witness ==
    /\ calls = 3
    /\ \E t \in TaskIds :
        /\ tasks[t].mode = "done"
        /\ tasks[t].msg.name \in replaced
        /\ tasks[t].latest = lastReg[tasks[t].msg.name]
        /\ Len(tasks[t].invoked) = 1
        /\ tasks[t].invoked[1].handler = handlers[tasks[t].msg.name]

\* the position of the first behavior of the chain that does not call next
\* for the message; 0 when every behavior calls next
FirstStop(chain, message) ==
    LET stops == {i \in 1..Len(chain) : ~CallsNextFor(chain[i], message)} IN
    IF stops = {} THEN 0 ELSE CHOOSE i \in stops : \A j \in stops : i <= j

\* the stages of a dispatch that Bi settles without calling next:
\* enter 1, next 1, ..., enter i, exit i, exit i-1, ..., exit 1
StoppedTrace(i) ==
    Inward(i - 1) \o <<Event("enter", i), Event("exit", i)>> \o Outward(i - 1)

\* C9: when behavior Bi of a command chain returns its own Result without
\* calling next, no behavior after Bi and no handler is invoked in that
\* dispatch, and the Result returns through B(i-1), ..., B1 and is the
\* result of execute when these hand back what next yields.
C9_ShortCircuit ==
    \A t \in TaskIds :
        LET task == tasks[t]
            i == FirstStop(task.chain, task.msg)
        IN
        (/\ bus = "command" /\ Started(task) /\ Registered(task)
         /\ i > 0
         /\ Behavior_before(bus, task.chain[i], task.msg).out.how = "return")
        => LET own == Behavior_before(bus, task.chain[i], task.msg).out IN
           /\ task.invoked = <<>>
           /\ \A k \in 1..Len(task.trace) :
                task.trace[k].ev # "handler" /\ task.trace[k].at <= i
           /\ IsPrefix(task.trace, StoppedTrace(i))
           /\ task.mode = "done"
              => /\ task.trace = StoppedTrace(i)
                 /\ (\A j \in 1..(i - 1) : Transparent(task.chain[j], task.msg))
                    => task.out = own

C9_Witness ==
    /\ bus = "command"
    /\ \E t \in TaskIds :
        /\ tasks[t].mode = "done"
        /\ Registered(tasks[t])
        /\ tasks[t].chain = <<"LoggingCommandBehavior", "ShortCircuitBehavior">>
        /\ tasks[t].invoked = <<>>
        /\ tasks[t].trace = <<Event("enter", 1), Event("next", 1), Event("enter", 2),
                              Event("exit", 2), Event("exit", 1)>>
        /\ tasks[t].out = Returned(Err(<<"Rejected by behavior">>))

\* C10: when ValidationCommandBehavior is reached and the command's
\* validate() reports invalid with the error list E, the behavior does not
\* call next, no later behavior and no handler is invoked, and execute
\* returns Err(E).
C10_InvalidCommandRejected ==
    \A t \in TaskIds :
        LET task == tasks[t]
            i == FirstStop(task.chain, task.msg)
        IN
        (/\ bus = "command" /\ Started(task) /\ Registered(task)
         /\ \E k \in 1..Len(task.chain) :
                /\ task.chain[k] = "ValidationCommandBehavior"
                /\ \A j \in 1..(k - 1) : Transparent(task.chain[j], task.msg)
         /\ task.msg.validate # "none"
         /\ Validate(task.msg).how = "return"
         /\ Validate(task.msg).truthy
         /\ ~Validate(task.msg).isValid
         /\ Validate(task.msg).hasErrors)
        => /\ i > 0 /\ task.chain[i] = "ValidationCommandBehavior"
           /\ task.invoked = <<>>
           /\ \A k \in 1..Len(task.trace) :
                task.trace[k].ev \notin {"handler"} /\ task.trace[k].at <= i
           /\ \A k \in 1..Len(task.trace) :
                ~(task.trace[k].ev = "next" /\ task.trace[k].at = i)
           /\ task.mode = "done" => task.out = Returned(Err(Validate(task.msg).errors))

C10_Witness ==
    /\ bus = "command"
    /\ \E t \in TaskIds :
        /\ tasks[t].mode = "done"
        /\ tasks[t].latest = "TestHandler"
        /\ tasks[t].msg = [name |-> "TestCommand", value |-> -5, validate |-> "check"]
        /\ tasks[t].chain = <<"ValidationCommandBehavior", "LoggingCommandBehavior">>
        /\ tasks[t].invoked = <<>>
        /\ tasks[t].trace = <<Event("enter", 1), Event("exit", 1)>>
        /\ tasks[t].out = Returned(Err(<<"Value must be positive">>))

\* the number of times the event occurs in the trace
Count(trace, e) == Cardinality({k \in 1..Len(trace) : trace[k] = e})

\* the command has no validate capability, or its validate() reports valid
PassesValidation(command) ==
    \/ command.validate = "none"
    \/ /\ Validate(command).how = "return"
       /\ Validate(command).truthy
       /\ Validate(command).isValid

\* the task is suspended in the behavior at position k, before its call of next
SuspendedIn(task, k) ==
    /\ task.mode = "call"
    /\ task.stack[Len(task.stack)].index = k

\* C11: for a command without validate capability, or whose validate()
\* reports valid, ValidationCommandBehavior at position k of the chain calls
\* next exactly once when it is reached, the handler (when next is the
\* innermost stage) receives that same command, and the behavior settles
\* with exactly the outcome next settled with.
C11_ValidationPassesThrough ==
    /\ [](\A t \in TaskIds :
            LET task == tasks[t] IN
            \A k \in 1..Len(task.chain) :
                (/\ bus = "command"
                 /\ task.chain[k] = "ValidationCommandBehavior"
                 /\ PassesValidation(task.msg))
                => /\ Count(task.trace, Event("next", k)) <= Count(task.trace, Event("enter", k))
                   /\ Count(task.trace, Event("enter", k)) <= 1
                   /\ (Count(task.trace, Event("enter", k)) = 1 /\ ~SuspendedIn(task, k))
                      => Count(task.trace, Event("next", k)) = 1
                   /\ (k = Len(task.chain) /\ Count(task.trace, Event("next", k)) = 1)
                      => /\ Len(task.invoked) = 1
                         /\ task.invoked[1].arg = task.msg)
    /\ [][\A t \in TaskIds :
            (/\ bus = "command"
             /\ tasks[t].mode = "ret"
             /\ tasks[t].stack[Len(tasks[t].stack)].behavior = "ValidationCommandBehavior"
             /\ tasks'[t] # tasks[t])
            => /\ tasks'[t].out = tasks[t].out
               /\ tasks'[t].invoked = tasks[t].invoked]_vars

C11_Witness ==
    /\ bus = "command"
    /\ \E t \in TaskIds :
        /\ tasks[t].mode = "done"
        /\ tasks[t].chain = <<"ValidationCommandBehavior">>
        /\ tasks[t].msg = [name |-> "TestCommand", value |-> 5, validate |-> "check"]
        /\ tasks[t].invoked = <<[handler |-> "FailingHandler", arg |-> tasks[t].msg]>>
        /\ tasks[t].trace = <<Event("enter", 1), Event("next", 1), Event("handler", 0),
                              Event("exit", 1)>>
        /\ tasks[t].out = Returned(Err(<<"Handler failed">>))

\* the outcome of stage i of the pipeline composed from chain around the
\* handler (stage Len(chain) + 1 is the innermost one), as a function of the
\* message
RECURSIVE StageOutcome(_, _, _, _, _)
StageOutcome(busKind, chain, i, handler, message) ==
    IF i > Len(chain)
    THEN IF busKind = "command"
         THEN CommandBus_innermost(handler, message)
         ELSE QueryBus_innermost(handler, message)
    ELSE LET r == Behavior_before(busKind, chain[i], message) IN
         IF ~r.callsNext
         THEN r.out
         ELSE Behavior_after(chain[i], message,
                             StageOutcome(busKind, chain, i + 1, handler, message))

\* the outcome of execute(message) on a bus with this chain, where handler
\* is the handler registered under the identifier of the message ("": none)
ExecuteOutcome(busKind, chain, handler, message) ==
    IF handler = ""
    THEN IF busKind = "command"
         THEN CommandBus_notFound(ConstructorName(message))
         ELSE QueryBus_notFound(ConstructorName(message))
    ELSE StageOutcome(busKind, chain, 1, handler, message)

\* the chain without the behavior
Without(chain, behavior) == SelectSeq(chain, LAMBDA b : b # behavior)

\* C12: execute on a command bus with LoggingCommandBehavior in the chain
\* settles with the same outcome (same Ok value, same Err list or same
\* raised fault) as execute of the same command on the same bus without it.
C12_LoggingCommandNeverAlters ==
    \A t \in TaskIds :
        LET task == tasks[t] IN
        (/\ bus = "command"
         /\ task.mode = "done"
         /\ \E k \in 1..Len(task.chain) : task.chain[k] = "LoggingCommandBehavior")
        => task.out = ExecuteOutcome("command",
                                     Without(task.chain, "LoggingCommandBehavior"),
                                     task.latest, task.msg)

\* C13: whenever next settles in LoggingQueryBehavior, the behavior settles
\* with the very same outcome: the value next produced, or the fault next
\* raised, re-raised after one "Failed" record has been written to
\* console.error; a chain of LoggingQueryBehavior alone yields exactly what
\* the handler yields.
C13_LoggingQueryRethrows ==
    /\ [](\A t \in TaskIds :
            LET task == tasks[t] IN
            (/\ bus = "query"
             /\ task.mode = "done"
             /\ Registered(task)
             /\ \A i \in 1..Len(task.chain) : task.chain[i] = "LoggingQueryBehavior")
            => task.out = QueryHandler_handle(task.latest, task.msg))
    /\ [][\A t \in TaskIds :
            LET task == tasks[t]
                frame == task.stack[Len(task.stack)]
            IN
            (/\ bus = "query"
             /\ task.mode = "ret"
             /\ frame.behavior = "LoggingQueryBehavior"
             /\ tasks'[t] # task)
            => /\ tasks'[t].out = task.out
               /\ tasks'[t].mode \in {"ret", "done"}
               /\ Len(tasks'[t].log) = Len(task.log) + 1
               /\ task.out.how = "throw"
                  => tasks'[t].log[Len(tasks'[t].log)] =
                        [stream |-> "error", text |-> "[Query] Failed: " \o task.msg.name,
                         at |-> frame.index, pos |-> Len(task.trace)]]_vars

C13_Witness ==
    /\ bus = "query"
    /\ \E t \in TaskIds :
        /\ tasks[t].mode = "done"
        /\ tasks[t].chain = <<"LoggingQueryBehavior">>
        /\ tasks[t].msg.name = "TestQuery"
        /\ tasks[t].invoked = <<[handler |-> "ThrowingHandler", arg |-> tasks[t].msg]>>
        /\ tasks[t].out = Thrown(NewError("Query failed", "handler"))
        /\ Len(tasks[t].log) = 2
        /\ tasks[t].log[2].stream = "error"
        /\ tasks[t].log[2].text = "[Query] Failed: TestQuery"

\* the console records written by the behavior at position k
LogAt(task, k) == SelectSeq(task.log, LAMBDA r : r.at = k)

\* the position of the (first) occurrence of the event in the trace
IndexOf(trace, e) ==
    CHOOSE i \in 1..Len(trace) : trace[i] = e /\ \A j \in 1..(i - 1) : trace[j] # e

IsLogging(behavior) == behavior \in {"LoggingCommandBehavior", "LoggingQueryBehavior"}

\* the outcome record a logging behavior owes for the outcome o of next
OutcomeRecord(busKind, message, o) ==
    IF busKind = "command"
    THEN IF o.how = "return" /\ isOk(o.result)
         THEN Record("log", "[Command] Completed: " \o message.name)
         ELSE Record(IF o.how = "throw" THEN "error" ELSE "log",
                     "[Command] Failed: " \o message.name)
    ELSE IF o.how = "return"
         THEN Record("log", "[Query] Completed: " \o message.name)
         ELSE Record("error", "[Query] Failed: " \o message.name)

\* C14: a logging behavior at position k writes nothing unless the dispatch
\* reaches it; once reached it has written one "Executing" record, before
\* its call of next; while next has not settled it has written nothing
\* else; and once next has settled it has written exactly one more record,
\* after next: "Completed" when next yielded Ok (command) or a value (query),
\* "Failed" when next yielded Err (command) or raised.
C14_LoggingRecords ==
    \A t \in TaskIds :
        LET task == tasks[t] IN
        \A k \in 1..Len(task.chain) :
            IsLogging(task.chain[k])
            => LET recs == LogAt(task, k)
                   entered == Count(task.trace, Event("enter", k)) = 1
                   called == Count(task.trace, Event("next", k)) = 1
                   exited == Count(task.trace, Event("exit", k)) = 1
                   inner == StageOutcome(bus, task.chain, k + 1, task.latest, task.msg)
               IN
               /\ ~entered => recs = <<>>
               /\ entered
                  => /\ Len(recs) >= 1
                     /\ recs[1].stream = "log"
                     /\ recs[1].text = (IF bus = "command" THEN "[Command]" ELSE "[Query]")
                                        \o " Executing: " \o task.msg.name
                     /\ recs[1].pos = IndexOf(task.trace, Event("enter", k))
                     /\ called
                     /\ recs[1].pos < IndexOf(task.trace, Event("next", k))
               /\ (entered /\ ~exited) => Len(recs) = 1
               /\ exited
                  => /\ Len(recs) = 2
                     /\ recs[2].pos >= IndexOf(task.trace, Event("next", k))
                     /\ recs[2].pos < IndexOf(task.trace, Event("exit", k))
                     /\ Record(recs[2].stream, recs[2].text)
                            = OutcomeRecord(bus, task.msg, inner)

C14_Witness ==
    /\ bus = "command"
    /\ \E t \in TaskIds :
        /\ tasks[t].mode = "done"
        /\ tasks[t].chain = <<"LoggingCommandBehavior">>
        /\ tasks[t].invoked = <<[handler |-> "FailingHandler", arg |-> tasks[t].msg]>>
        /\ tasks[t].msg.name = "TestCommand"
        /\ tasks[t].log =
              <<[stream |-> "log", text |-> "[Command] Executing: TestCommand",
                 at |-> 1, pos |-> 1],
                [stream |-> "log", text |-> "[Command] Failed: TestCommand",
                 at |-> 1, pos |-> 3]>>

\* the events of the transaction service
ScopeEvents == {"transaction", "begin", "commit", "commitFailed", "rollback"}

\* the positions in the trace where the transaction opened by the behavior
\* at position k ends
Closing(trace, k) ==
    {i \in 1..Len(trace) :
        trace[i].at = k /\ trace[i].ev \in {"commit", "commitFailed", "rollback"}}

\* next is called by the behavior at position k right after its transaction
\* has begun, and every stage inside k (a later behavior, the handler) runs
\* after that call and before the transaction ends
InScope(trace, k) ==
    LET b == IndexOf(trace, Event("begin", k)) IN
    /\ b < Len(trace)
    /\ trace[b + 1] = Event("next", k)
    /\ \A i \in 1..Len(trace) :
          (trace[i].ev = "handler" \/ trace[i].at > k)
          => /\ i > b + 1
             /\ \A c \in Closing(trace, k) : i < c

\* what C15 says of every command: next is never called twice; a command
\* with useTransaction === false has next called once, with no transaction
\* opened in the dispatch, and the behavior (shown at the head of the chain)
\* settles with the outcome of next
TransactionOptOut(task, k) ==
    /\ Count(task.trace, Event("next", k)) <= 1
    /\ UseTransactionFalse(task.msg)
       => /\ \A i \in 1..Len(task.trace) : task.trace[i].ev \notin ScopeEvents
          /\ (Count(task.trace, Event("enter", k)) = 1 /\ ~SuspendedIn(task, k))
             => Count(task.trace, Event("next", k)) = 1
          /\ (k = 1 /\ task.mode = "done" /\ Registered(task))
             => task.out = StageOutcome("command", task.chain, 2, task.latest, task.msg)

\* C15 as stated: for a command with useTransaction === false the behavior
\* calls next exactly once outside any transaction and returns its Result
\* unchanged; for every other command, once the behavior has run, next has
\* been called exactly once, inside the transaction.
C15_NextExactlyOnceInScope ==
    \A t \in TaskIds :
        LET task == tasks[t] IN
        \A k \in 1..Len(task.chain) :
            task.chain[k] = "TransactionCommandBehavior"
            => /\ TransactionOptOut(task, k)
               /\ (~UseTransactionFalse(task.msg) /\ Count(task.trace, Event("exit", k)) = 1)
                  => /\ Count(task.trace, Event("next", k)) = 1
                     /\ InScope(task.trace, k)

\* C15 as amended: for every other command next is called at most once and
\* only inside the transaction: exactly once when the service opens the
\* transaction, right after it has, and not at all when the service fails
\* to open it.
C15_NextOnceWhenScopeOpens ==
    \A t \in TaskIds :
        LET task == tasks[t] IN
        \A k \in 1..Len(task.chain) :
            task.chain[k] = "TransactionCommandBehavior"
            => /\ TransactionOptOut(task, k)
               /\ ~UseTransactionFalse(task.msg)
                  => /\ Count(task.trace, Event("begin", k)) <= 1
                     /\ Count(task.trace, Event("next", k))
                            = Count(task.trace, Event("begin", k))
                     /\ Count(task.trace, Event("begin", k)) = 1 => InScope(task.trace, k)
                     /\ (/\ Count(task.trace, Event("exit", k)) = 1
                         /\ Count(task.trace, Event("begin", k)) = 0)
                        => /\ Count(task.trace, Event("transaction", k)) = 1
                           /\ task.invoked = <<>>

C15_Witness ==
    \E t, u \in TaskIds :
        /\ tasks[t].mode = "done"
        /\ tasks[t].chain = <<"TransactionCommandBehavior">>
        /\ UseTransactionFalse(tasks[t].msg)
        /\ tasks[t].trace = <<Event("enter", 1), Event("next", 1), Event("handler", 0),
                              Event("exit", 1)>>
        /\ tasks[t].out = Returned(Ok(10))
        /\ tasks[u].mode = "done"
        /\ tasks[u].chain = <<"TransactionCommandBehavior">>
        /\ "useTransaction" \notin DOMAIN tasks[u].msg
        /\ tasks[u].trace = <<Event("enter", 1), Event("transaction", 1), Event("begin", 1),
                              Event("next", 1), Event("handler", 0), Event("commit", 1),
                              Event("exit", 1)>>
        /\ tasks[u].out = Returned(Ok(10))

\* C16: when db.transaction raises (the service cannot open the transaction
\* or cannot commit it, or something inside the transaction raised and was
\* rolled back), TransactionCommandBehavior settles with Err([m]), m the
\* message of the Error raised ("Transaction failed" for a raised value that
\* is not an Error), and never with a raised fault; a Result that
\* db.transaction resolves with is returned as it is.
C16_ScopeFaultBecomesErr ==
    /\ [](\A t \in TaskIds :
            LET task == tasks[t] IN
            (/\ task.mode = "done"
             /\ Registered(task)
             /\ Len(task.chain) >= 1
             /\ task.chain[1] = "TransactionCommandBehavior"
             /\ ~UseTransactionFalse(task.msg))
            => task.out.how = "return")
    /\ [][\A t \in TaskIds :
            LET task == tasks[t]
                frame == task.stack[Len(task.stack)]
            IN
            (/\ task.mode = "ret"
             /\ frame.behavior = "TransactionCommandBehavior"
             /\ ~UseTransactionFalse(task.msg)
             /\ tasks'[t] # task)
            => /\ tasks'[t].out.how = "return"
               /\ task.out.how = "return" => tasks'[t].out = task.out
               /\ (task.out.how = "throw" /\ task.out.fault.isError)
                  => tasks'[t].out = Returned(Err(<<task.out.fault.message>>))
               /\ (task.out.how = "throw" /\ ~task.out.fault.isError)
                  => tasks'[t].out = Returned(Err(<<"Transaction failed">>))]_vars

C16_Witness ==
    \E t, u \in TaskIds :
        /\ tasks[t].mode = "done"
        /\ tasks[t].chain = <<"TransactionCommandBehavior">>
        /\ tasks[t].trace = <<Event("enter", 1), Event("transaction", 1), Event("begin", 1),
                              Event("next", 1), Event("handler", 0),
                              Event("commitFailed", 1), Event("exit", 1)>>
        /\ tasks[t].invoked = <<[handler |-> "TestHandler", arg |-> tasks[t].msg]>>
        /\ tasks[t].out = Returned(Err(<<"connection lost">>))
        /\ tasks[u].mode = "done"
        /\ tasks[u].chain = <<"TransactionCommandBehavior">>
        /\ tasks[u].trace = <<Event("enter", 1), Event("transaction", 1), Event("exit", 1)>>
        /\ tasks[u].out = Returned(Err(<<"connection lost">>))

\* the time-to-live text the behavior instance stores its entries with
TtlText(behavior) == IF behavior = "CacheQueryBehavior" THEN "3600 seconds" ELSE "60 seconds"

\* the cache key of the queries dispatched
KeyText(query) ==
    CASE query = [name |-> "TestQuery", value |-> 5] -> "query:TestQuery:{\"value\":5}"
      [] query = [name |-> "TestQuery", value |-> 7] -> "query:TestQuery:{\"value\":7}"
      [] query = [name |-> "TestQuery", value |-> 5, useCache |-> TRUE] ->
            "query:TestQuery:{\"value\":5,\"useCache\":true}"
      [] OTHER -> "query:TestQuery:{\"value\":5,\"useCache\":false}"

\* the task is about to resume in CacheQueryBehavior with the result of
\* cache.get, for a query that has not opted out
ReadingCache(task) ==
    /\ task.mode = "call"
    /\ IsCacheQueryBehavior(task.stack[Len(task.stack)].behavior)
    /\ ~UseCacheFalse(task.msg)

\* the step is a hit served to the task: the behavior settles with the
\* value, next and the handler are not invoked
ServedFromCache(task, after, value) ==
    LET k == task.stack[Len(task.stack)].index IN
    /\ after.out = Returned(value)
    /\ after.mode \in {"ret", "done"}
    /\ after.trace = task.trace \o <<Event("hit", k), Event("exit", k)>>
    /\ after.invoked = task.invoked
    /\ task.invoked = <<>>

\* C17: for a query that has not opted out, when the cache holds a value
\* under the key of the query as CacheQueryBehavior reads it, the behavior
\* settles with that value, calls neither next nor the handler, and leaves
\* the cache as it is; a dispatch served from the cache never invokes the
\* handler or writes the cache.
C17_CacheHit ==
    /\ [](\A t \in TaskIds :
            LET task == tasks[t] IN
            \A k \in 1..Len(task.chain) :
                (IsCacheQueryBehavior(task.chain[k])
                 /\ Count(task.trace, Event("hit", k)) >= 1)
                => /\ Count(task.trace, Event("hit", k)) = 1
                   /\ Count(task.trace, Event("next", k)) = 0
                   /\ Count(task.trace, Event("set", k)) = 0
                   /\ task.invoked = <<>>
                   /\ \A i \in 1..Len(task.trace) :
                         task.trace[i].ev # "handler" /\ task.trace[i].at <= k)
    /\ [][\A t \in TaskIds :
            LET task == tasks[t]
                key == KeyText(task.msg)
            IN
            (/\ ReadingCache(task)
             /\ key \in DOMAIN cache
             /\ cache[key].value # Null
             /\ tasks'[t] # task)
            => /\ ServedFromCache(task, tasks'[t], cache[key].value)
               /\ cache' = cache]_vars

C17_Witness ==
    /\ bus = "query"
    /\ DOMAIN cache = {"query:TestQuery:{\"value\":5}"}
    /\ cache["query:TestQuery:{\"value\":5}"] =
            [value |-> Bare(15), ttl |-> "3600 seconds"]
    /\ \E t \in TaskIds :
        /\ tasks[t].mode = "done"
        /\ tasks[t].chain = <<"CacheQueryBehavior">>
        /\ tasks[t].msg = [name |-> "TestQuery", value |-> 5]
        /\ tasks[t].latest = "TestHandler"
        /\ tasks[t].trace = <<Event("enter", 1), Event("hit", 1), Event("exit", 1)>>
        /\ tasks[t].invoked = <<>>
        /\ tasks[t].out = Returned(Bare(15))

\* the step by which CacheQueryBehavior, resumed with the value next has
\* returned, stores it under the key of the query with the time-to-live of
\* the behavior, having called next once, and settles with that value
StoresOnMiss(task, after) ==
    LET frame == task.stack[Len(task.stack)]
        key == KeyText(task.msg)
    IN
    (/\ task.mode = "ret"
     /\ IsCacheQueryBehavior(frame.behavior)
     /\ ~UseCacheFalse(task.msg)
     /\ task.out.how = "return"
     /\ after # task)
    => /\ DOMAIN cache' = (DOMAIN cache) \cup {key}
       /\ cache'[key] = [value |-> task.out.result, ttl |-> TtlText(frame.behavior)]
       /\ \A other \in (DOMAIN cache) \ {key} : cache'[other] = cache[other]
       /\ after.out = task.out
       /\ after.mode \in {"ret", "done"}
       /\ Count(after.trace, Event("miss", frame.index)) = 1
       /\ Count(after.trace, Event("next", frame.index)) = 1
       /\ after.trace[Len(after.trace) - 1] = Event("set", frame.index)
       /\ after.trace[Len(after.trace)] = Event("exit", frame.index)

\* the step is a miss: the behavior calls next, and what follows it in the
\* chain (a behavior or the handler) runs; nothing is served from the cache
ReadAsMiss(task, after) ==
    LET k == task.stack[Len(task.stack)].index
        n == Len(task.trace)
    IN
    /\ Len(after.trace) >= n + 2
    /\ SubSeq(after.trace, 1, n + 2) = task.trace \o <<Event("miss", k), Event("next", k)>>
    /\ Count(after.trace, Event("hit", k)) = 0
    /\ after.mode \in {"call", "handling"}
    /\ after.out.how = "pending"

\* C18 as stated: on a miss the behavior calls next once, stores the value
\* of next under the key with the configured time-to-live and returns it;
\* and an execute that reads the cache while an entry stored under its key
\* is live is served the stored value, without the handler being invoked.
C18_StoredValueServed ==
    [][\A t \in TaskIds :
        /\ StoresOnMiss(tasks[t], tasks'[t])
        /\ (/\ ReadingCache(tasks[t])
            /\ KeyText(tasks[t].msg) \in DOMAIN cache
            /\ tasks'[t] # tasks[t])
           => ServedFromCache(tasks[t], tasks'[t], cache[KeyText(tasks[t].msg)].value)]_vars

\* C18 as amended: the same, where the later execute is served the stored
\* value when that value is not null; a stored null is read as a miss, and
\* the behavior calls next again.
C18_StoredNonNullValueServed ==
    /\ [](\A t \in TaskIds :
            LET task == tasks[t] IN
            \A k \in 1..Len(task.chain) :
                IsCacheQueryBehavior(task.chain[k])
                => /\ Count(task.trace, Event("set", k)) <= Count(task.trace, Event("next", k))
                   /\ Count(task.trace, Event("next", k)) <= 1
                   /\ ~UseCacheFalse(task.msg)
                      => Count(task.trace, Event("next", k))
                            = Count(task.trace, Event("miss", k)))
    /\ [][\A t \in TaskIds :
            /\ StoresOnMiss(tasks[t], tasks'[t])
            /\ (/\ ReadingCache(tasks[t])
                /\ KeyText(tasks[t].msg) \in DOMAIN cache
                /\ tasks'[t] # tasks[t])
               => IF cache[KeyText(tasks[t].msg)].value # Null
                  THEN ServedFromCache(tasks[t], tasks'[t],
                                       cache[KeyText(tasks[t].msg)].value)
                  ELSE ReadAsMiss(tasks[t], tasks'[t])]_vars

C18_Witness ==
    /\ bus = "query"
    /\ cache = [k \in {"query:TestQuery:{\"value\":7}"} |->
                    [value |-> Bare(21), ttl |-> "60 seconds"]]
    /\ \E t, u \in TaskIds :
        /\ tasks[t].mode = "done"
        /\ tasks[t].chain = <<"CacheQueryBehavior60">>
        /\ tasks[t].msg = [name |-> "TestQuery", value |-> 7]
        /\ tasks[t].trace = <<Event("enter", 1), Event("miss", 1), Event("next", 1),
                              Event("handler", 0), Event("set", 1), Event("exit", 1)>>
        /\ tasks[t].out = Returned(Bare(21))
        /\ tasks[u].mode = "done"
        /\ tasks[u].msg = tasks[t].msg
        /\ tasks[u].trace = <<Event("enter", 1), Event("hit", 1), Event("exit", 1)>>
        /\ tasks[u].invoked = <<>>
        /\ tasks[u].out = Returned(Bare(21))

\* the step applies one of the operations of the Result to the object the
\* caller holds (a construction forgets the last observation)
OperationStep ==
    /\ observed'.op \in {"isOk", "isErr", "map", "unwrap", "unwrapOr", "getErrors"}
    /\ subject'.ctor = subject.ctor

\* C19: every Result is exactly one of Ok and Err for its whole lifetime:
\* isOk(r) and isErr(r) are never both true and never both false, and no
\* operation (isOk, isErr, map, unwrap, unwrapOr, getErrors) changes the
\* variant or the payload of r; map of an Ok returns another object and
\* map of an Err returns the object itself.
C19_OneVariantForLife ==
    /\ [](subject.ctor # "" =>
            /\ subject.obj.tag \in {"ok", "err"}
            /\ isOk(subject.obj) # isErr(subject.obj)
            /\ isOk(subject.obj) = (subject.ctor = "ok"))
    /\ [][OperationStep =>
            /\ subject' = subject
            /\ (observed'.op = "map" /\ observed'.ret.same)
                    => observed'.ret.obj = subject.obj]_vars

C19_Witness ==
    /\ subject.obj = Err(<<"a", "b">>)
    /\ observed.op = "unwrap"
    /\ observed.ret = RaiseError("a, b")

\* C20: the constructors round-trip through the accessors: a result made
\* by ok(v) is Ok and unwrap returns v; a result made by err(e) is Err and
\* getErrors returns e; errMessage(m) is the same result as err([m]).
C20_ConstructorsRoundTrip ==
    /\ subject.ctor = "ok" =>
            /\ isOk(subject.obj)
            /\ observed.op = "isOk" => observed.ret = ReturnBool(TRUE)
            /\ observed.op = "unwrap" => observed.ret = ReturnValue(subject.val)
    /\ subject.ctor = "err" =>
            /\ isErr(subject.obj)
            /\ observed.op = "isErr" => observed.ret = ReturnBool(TRUE)
            /\ observed.op = "getErrors" => observed.ret = ReturnList(subject.list)
    /\ subject.ctor = "errMessage" =>
            /\ subject.obj = err(<<subject.text>>)
            /\ observed.op = "getErrors" => observed.ret = ReturnList(<<subject.text>>)

C20_Witness ==
    /\ subject.ctor = "err"
    /\ subject.list = <<"b", "a">>
    /\ observed.op = "getErrors"
    /\ observed.ret.list = <<"b", "a">>

\* C21: map(f) on Ok(v) returns Ok(f(v)), f applied once to v; map(f) on
\* an Err returns the Err itself, with the same error, and never applies f.
C21_MapTransformsOkOnly ==
    observed.op = "map" =>
        /\ observed.ret.how = "return"
        /\ subject.ctor = "ok" =>
                /\ observed.ret.obj.tag = "ok"
                /\ observed.ret.obj.value =
                        (CASE observed.fn = "double" -> subject.val + subject.val
                           [] observed.fn = "negate" -> 0 - subject.val
                           [] OTHER -> 0)
                /\ observed.ret.applied = 1
        /\ subject.ctor # "ok" =>
                /\ observed.ret.obj = subject.obj
                /\ observed.ret.obj.tag = "err"
                /\ subject.ctor = "err" => observed.ret.obj.error = subject.list
                /\ observed.ret.applied = 0

C21_Witness ==
    /\ subject.ctor = "ok"
    /\ subject.val = 5
    /\ observed.op = "map"
    /\ observed.fn = "double"
    /\ observed.ret.obj = Ok(10)

\* the messages of the error lists joined with ", "
JoinedText(list) ==
    CASE list = <<>> -> ""
      [] list = <<"a">> -> "a"
      [] list = <<"a", "b">> -> "a, b"
      [] OTHER -> "b, a"

\* unwrap of an Err raises a fault of the class name, whose message is the
\* errors joined with ", "; unwrapOr(d) returns d on Err and the value on
\* Ok; nothing but unwrap of an Err raises
UnwrapRaises(name) ==
    /\ (observed.op = "unwrap" /\ subject.ctor = "ok")
            => observed.ret = ReturnValue(subject.val)
    /\ (observed.op = "unwrap" /\ subject.ctor # "ok")
            => /\ observed.ret.how = "throw"
               /\ observed.ret.name = name
               /\ observed.ret.text = (IF subject.ctor = "err"
                                        THEN JoinedText(subject.list)
                                        ELSE subject.text)
    /\ observed.op = "unwrapOr"
            => observed.ret = ReturnValue(IF subject.ctor = "ok"
                                          THEN subject.val ELSE observed.arg)
    /\ observed.ret.how = "throw"
            => (observed.op = "unwrap" /\ isErr(subject.obj))

\* C22 as stated: unwrap() on Err(e) fails with an UnwrapError whose
\* message is the elements of e joined with ", "; unwrapOr(d) returns d on
\* Err(e) and v on Ok(v); unwrap on Err is the only operation that raises.
C22_UnwrapRaisesUnwrapError == UnwrapRaises("UnwrapError")

\* C22 as amended: the same, where the fault raised by unwrap() on Err(e)
\* is a plain Error (the code has no UnwrapError class).
C22_UnwrapRaisesError == UnwrapRaises("Error")

C22_Witness ==
    /\ subject.ctor = "err"
    /\ subject.list = <<"b", "a">>
    /\ observed.op = "unwrap"
    /\ observed.ret.how = "throw"
    /\ observed.ret.text = "b, a"

\* C23: execute leaves the bus unchanged: every step of an execute call
\* (its start, each resumption after an await, its settling), whatever the
\* other calls in flight and whatever its outcome, leaves the handler
\* registry and the behavior chain as they were.
C23_ExecuteLeavesBusUnchanged ==
    [][(\E t \in TaskIds : tasks'[t] # tasks[t])
        => /\ handlers' = handlers
           /\ behaviors' = behaviors]_vars

C23_Witness ==
    /\ bus = "command"
    /\ behaviors = <<"ValidationCommandBehavior">>
    /\ handlers = [k \in {"TestCommand"} |-> "TestHandler"]
    /\ \E t, u \in TaskIds :
        /\ t < u
        /\ tasks[t].mode = "handling"
        /\ tasks[t].msg = [name |-> "TestCommand", value |-> 5, validate |-> "check"]
        /\ tasks[u].mode = "done"
        /\ tasks[u].msg = [name |-> "TestCommand", value |-> -5, validate |-> "check"]
        /\ tasks[u].out = Returned(Err(<<"Value must be positive">>))

\* C29: on the command bus, when the handler raises a value that is not an
\* Error instance (a plain object, even one carrying a message), the
\* innermost stage settles with Err(["Command execution failed"]), and so
\* does execute when the behaviors of the chain hand back what next yields;
\* the text carried by the raised value is not in the result.
C29_NonErrorFaultIsGeneric ==
    \A t \in TaskIds :
        LET task == tasks[t] IN
        (/\ bus = "command"
         /\ Len(task.invoked) = 1
         /\ task.invoked[1].handler = "RawThrowingHandler"
         /\ task.mode \in {"ret", "done"})
        => /\ task.trace[Len(task.trace)].ev = "handler"
                => task.out = Returned(Err(<<"Command execution failed">>))
           /\ (/\ task.mode = "done"
               /\ \A i \in 1..Len(task.chain) : Transparent(task.chain[i], task.msg))
              => /\ task.out = Returned(Err(<<"Command execution failed">>))
                 /\ \A k \in 1..Len(task.out.result.error) :
                        task.out.result.error[k] # "not an Error"

C29_Witness ==
    /\ bus = "command"
    /\ \E t \in TaskIds :
        /\ tasks[t].mode = "done"
        /\ tasks[t].chain = <<"LoggingCommandBehavior">>
        /\ tasks[t].invoked = <<[handler |-> "RawThrowingHandler", arg |-> tasks[t].msg]>>
        /\ tasks[t].out = Returned(Err(<<"Command execution failed">>))

\* the behaviors named by the closure, outermost first
RECURSIVE StagesOf(_)
StagesOf(pipeline) ==
    IF pipeline.stage = "behavior"
    THEN <<[behavior |-> pipeline.behavior, index |-> pipeline.index]>>
            \o StagesOf(pipeline.next)
    ELSE <<>>

\* the handler the closure invokes at its innermost stage
RECURSIVE HandlerOf(_)
HandlerOf(pipeline) ==
    IF pipeline.stage = "behavior" THEN HandlerOf(pipeline.next) ELSE pipeline.handler

\* the dispatch runs the handler and the behaviors that were registered
\* when execute was called
RunsAsResolved(task) ==
    /\ \A k \in 1..Len(task.invoked) : task.invoked[k].handler = task.latest
    /\ \A k \in 1..Len(task.stack) :
            /\ task.stack[k].index \in 1..Len(task.chain)
            /\ task.stack[k].behavior = task.chain[task.stack[k].index]
    /\ \A k \in 1..Len(task.trace) : task.trace[k].at \in 0..Len(task.chain)
    /\ task.cur.stage # "none"
            => /\ HandlerOf(task.cur) = task.latest
               /\ \A k \in 1..Len(StagesOf(task.cur)) :
                    /\ StagesOf(task.cur)[k].index \in 1..Len(task.chain)
                    /\ StagesOf(task.cur)[k].behavior
                            = task.chain[StagesOf(task.cur)[k].index]

CacheAnswersNull(query) ==
    \/ KeyText(query) \notin DOMAIN cache
    \/ cache[KeyText(query)].value = Null

\* C28: the query cache treats a cached null as no hit: when the cache
\* answers null for the key of the query, also because null was stored
\* under it, CacheQueryBehavior calls next; when next returns null the
\* behavior stores null under the key again and returns it; and no
\* dispatch is ever served null from the cache.
C28_CachedNullIsNoHit ==
    [][\A t \in TaskIds :
        LET task == tasks[t]
            after == tasks'[t]
        IN
        /\ (ReadingCache(task) /\ after # task /\ CacheAnswersNull(task.msg))
            => /\ ReadAsMiss(task, after)
               /\ cache' = cache
        /\ (/\ task.mode = "ret"
            /\ IsCacheQueryBehavior(task.stack[Len(task.stack)].behavior)
            /\ ~UseCacheFalse(task.msg)
            /\ task.out = Returned(Null)
            /\ after # task)
            => /\ KeyText(task.msg) \in DOMAIN cache'
               /\ cache'[KeyText(task.msg)].value = Null
               /\ after.out = Returned(Null)
        /\ (/\ Len(after.trace) = Len(task.trace) + 2
            /\ after.trace[Len(after.trace) - 1].ev = "hit")
            => after.out.result # Null]_vars

C28_Witness ==
    /\ bus = "query"
    /\ handlers = [k \in {"TestQuery"} |-> "NullHandler"]
    /\ cache = [k \in {"query:TestQuery:{\"value\":5}"} |->
                    [value |-> Null, ttl |-> "3600 seconds"]]
    /\ \E t, u \in TaskIds :
        /\ t < u
        /\ tasks[t].mode = "done"
        /\ tasks[u].mode = "done"
        /\ tasks[t].msg = [name |-> "TestQuery", value |-> 5]
        /\ tasks[u].msg = tasks[t].msg
        /\ tasks[t].chain = <<"CacheQueryBehavior">>
        /\ tasks[u].chain = <<"CacheQueryBehavior">>
        /\ tasks[t].trace = <<Event("enter", 1), Event("miss", 1), Event("next", 1),
                              Event("handler", 0), Event("set", 1), Event("exit", 1)>>
        /\ tasks[u].trace = tasks[t].trace
        /\ tasks[t].invoked = <<[handler |-> "NullHandler", arg |-> tasks[t].msg]>>
        /\ tasks[u].invoked = tasks[t].invoked
        /\ tasks[u].out = Returned(Null)

\* the identifier the naming convention gives a handler type on a bus
ConventionalIdentifier(busKind, handler) ==
    CASE busKind = "command" /\ handler = "CreateUserCommandHandler" -> "CreateUserCommand"
      [] busKind = "command" /\ handler = "TestCommandHandler" -> "TestCommand"
      [] busKind = "query" /\ handler = "TestQueryHandler" -> "TestQuery"
      [] OTHER -> handler

\* C24: a handler derived from CommandHandlerBase whose type name is
\* "<N>CommandHandler" is registered, when constructed, on the command bus
\* under "<N>Command" (QueryHandlerBase: "<N>QueryHandler" under "<N>Query"
\* on the query bus), and a type name without the suffix (or that is the
\* suffix alone) under the type name itself; an execute of a message with
\* that type identifier resolves that handler and invokes no other.
C24_HandlerRegisteredByConvention ==
    /\ \A id \in DOMAIN handlers : id = ConventionalIdentifier(bus, handlers[id])
    /\ \A t \in TaskIds :
        LET task == tasks[t] IN
        /\ (Started(task) /\ Registered(task))
            => task.msg.name = ConventionalIdentifier(bus, task.latest)
        /\ \A k \in 1..Len(task.invoked) :
            /\ task.invoked[k].handler = task.latest
            /\ task.invoked[k].arg = task.msg

C24_Witness ==
    /\ bus = "command"
    /\ DOMAIN handlers = {"CreateUserCommand", "TestHandler", "CommandHandler"}
    /\ handlers["CreateUserCommand"] = "CreateUserCommandHandler"
    /\ \E t \in TaskIds :
        /\ tasks[t].msg.name = "CreateUserCommand"
        /\ tasks[t].mode = "handling"
        /\ tasks[t].invoked = <<[handler |-> "CreateUserCommandHandler",
                                 arg |-> tasks[t].msg]>>

\* the record the logging behavior writes before it calls next
StartRecords(task, k) ==
    SelectSeq(task.log, LAMBDA r : r.at = k /\ r.text = "[Command] Executing: " \o task.msg.name)

\* C25: on the command bus built by the provider the chain is Validation,
\* Logging, Transaction.  For a valid command the validation check comes
\* before the logging start record, which comes before the opening of the
\* transactional scope, which comes before the handler.  For an invalid
\* command no logging record is written, no transactional scope is opened
\* and the handler is not invoked.
C25_ProviderChainOrder ==
    bus = "command" =>
    /\ behaviors = <<"ValidationCommandBehavior", "LoggingCommandBehavior",
                     "TransactionCommandBehavior">>
    /\ \A t \in TaskIds :
        LET task == tasks[t] IN
        (Started(task) /\ Registered(task))
        => /\ task.chain = behaviors
           /\ PassesValidation(task.msg)
                => /\ Len(StartRecords(task, 2)) <= 1
                   /\ Len(StartRecords(task, 2)) = 1
                        => /\ Count(task.trace, Event("next", 1)) = 1
                           /\ IndexOf(task.trace, Event("next", 1))
                                < StartRecords(task, 2)[1].pos
                   /\ Count(task.trace, Event("begin", 3)) = 1
                        => /\ Len(StartRecords(task, 2)) = 1
                           /\ StartRecords(task, 2)[1].pos
                                < IndexOf(task.trace, Event("begin", 3))
                   /\ Count(task.trace, Event("handler", 0)) = 1
                        => /\ Count(task.trace, Event("begin", 3)) = 1
                           /\ IndexOf(task.trace, Event("begin", 3))
                                < IndexOf(task.trace, Event("handler", 0))
                   /\ (task.mode = "done" /\ Len(task.invoked) = 1)
                        => /\ Len(task.trace) = 13
                           /\ SubSeq(task.trace, 1, 9) =
                                <<Event("enter", 1), Event("next", 1), Event("enter", 2),
                                  Event("next", 2), Event("enter", 3),
                                  Event("transaction", 3), Event("begin", 3),
                                  Event("next", 3), Event("handler", 0)>>
           /\ ~PassesValidation(task.msg)
                => /\ task.log = <<>>
                   /\ task.invoked = <<>>
                   /\ task.trace = <<Event("enter", 1), Event("exit", 1)>>
                   /\ task.mode = "done"
                   /\ task.out = Returned(Err(<<"Value must be positive">>))

C25_Witness ==
    /\ bus = "command"
    /\ \E t, u \in TaskIds :
        /\ tasks[t].mode = "done"
        /\ tasks[t].msg = [name |-> "TestCommand", value |-> 5, validate |-> "check"]
        /\ tasks[t].invoked = <<[handler |-> "TestCommandHandler", arg |-> tasks[t].msg]>>
        /\ Len(tasks[t].log) = 2
        /\ tasks[t].log[1].pos = 3
        /\ tasks[t].trace[7] = Event("begin", 3)
        /\ tasks[t].trace[9] = Event("handler", 0)
        /\ tasks[t].out = Returned(Ok(0))
        /\ tasks[u].mode = "done"
        /\ tasks[u].msg = [name |-> "TestCommand", value |-> -5, validate |-> "check"]
        /\ tasks[u].latest = "TestCommandHandler"
        /\ tasks[u].log = <<>>

\* C26: as in the Quick Start of the README, once a
\* CreateUserCommandHandler derived from CommandHandlerBase has been
\* constructed on the command bus, commandBus.execute of a plain object
\* literal carrying the CreateUser fields is dispatched to that handler
\* (and returns the Ok the handler returns).
C26_QuickStartReachesHandler ==
    [][\A t \in TaskIds :
        (/\ bus = "command"
         /\ tasks[t].mode = "idle"
         /\ tasks'[t].mode # "idle"
         /\ tasks'[t].msg.name = "Object"
         /\ "CreateUserCommand" \in DOMAIN handlers
         /\ handlers["CreateUserCommand"] = "CreateUserCommandHandler")
        => /\ Registered(tasks'[t])
           /\ tasks'[t].latest = "CreateUserCommandHandler"
           /\ tasks'[t].out.how = "return" => isOk(tasks'[t].out.result)]_vars

\* the outcome of execute when no handler is registered under the identifier
NotFoundOutcome(busKind, identifier) ==
    IF busKind = "command"
    THEN Returned(Err(<<"No handler registered for command: " \o identifier>>))
    ELSE Thrown([name |-> "HandlerNotFoundError",
                 message |-> "No handler registered for query: " \o identifier,
                 isError |-> TRUE, src |-> "bus"])

\* C27: the handler is looked up before the chain is entered: on either
\* bus, an execute that finds no handler under the identifier settles with
\* the not-found outcome at once, no behavior of the chain having been
\* entered: nothing validated, nothing logged, no transaction called and
\* the cache neither read nor written.
C27_LookupBeforeChain ==
    /\ [](\A t \in TaskIds :
            LET task == tasks[t] IN
            (Started(task) /\ ~Registered(task))
            => /\ task.mode = "done"
               /\ task.out = NotFoundOutcome(bus, task.msg.name)
               /\ task.trace = <<>>
               /\ task.log = <<>>
               /\ task.invoked = <<>>
               /\ task.stack = <<>>)
    /\ [][\A t \in TaskIds :
            (tasks[t].mode = "idle" /\ tasks'[t].mode # "idle" /\ ~Registered(tasks'[t]))
            => /\ tasks'[t].msg.name \notin DOMAIN handlers
               /\ cache' = cache]_vars

C27_Witness ==
    /\ bus = "command"
    /\ "CreateUserCommand" \in DOMAIN handlers
    /\ \E t, u \in TaskIds :
        /\ tasks[t].mode = "done"
        /\ tasks[t].msg.name = "Object"
        /\ tasks[t].chain = <<"ValidationCommandBehavior", "LoggingCommandBehavior",
                              "TransactionCommandBehavior">>
        /\ tasks[t].out = Returned(Err(<<"No handler registered for command: Object">>))
        /\ tasks[t].trace = <<>>
        /\ tasks[u].mode = "done"
        /\ tasks[u].msg.name = "TestCommand"
        /\ tasks[u].msg.value < 0
        /\ ~Registered(tasks[u])

\* every behavior the given positions of the chain hold hands next's outcome
\* back as it is
PassThrough(chain, positions) == \A j \in positions : chain[j] = "PassBehavior"

\* the handler the dispatch invoked raised, or returned an Err
HandlerFaulted(task) ==
    /\ Len(task.invoked) = 1
    /\ LET o == CommandHandler_handle(task.invoked[1].handler, task.invoked[1].arg) IN
       \/ o.how = "throw"
       \/ o.how = "return" /\ o.result.tag = "err"

\* the Err the handler's fault is reported as: the Err it returned, or
\* Err([m]) with m the message of the Error it raised ("Command execution
\* failed" for a raised value that is not an Error)
HandlerFaultErr(task) ==
    LET o == CommandHandler_handle(task.invoked[1].handler, task.invoked[1].arg) IN
    IF o.how = "return" THEN o.result
    ELSE IF o.fault.isError THEN Err(<<o.fault.message>>)
    ELSE Err(<<"Command execution failed">>)

\* C31: when the handler raises or returns Err inside the transaction that
\* TransactionCommandBehavior at position k opened, with only pass-through
\* behaviors between the two, the function given to db.transaction returns
\* normally with that Err: the transaction is never rolled back, the service
\* is left to commit it, and once it has committed the behavior (and, with
\* only pass-through behaviors before it, execute) returns that Err.
C31_HandlerFaultCommits ==
    /\ [](\A t \in TaskIds :
            LET task == tasks[t] IN
            \A k \in 1..Len(task.chain) :
                (/\ task.chain[k] = "TransactionCommandBehavior"
                 /\ PassThrough(task.chain, (k + 1)..Len(task.chain))
                 /\ Count(task.trace, Event("begin", k)) = 1
                 /\ HandlerFaulted(task))
                => /\ Count(task.trace, Event("rollback", k)) = 0
                   /\ (/\ task.mode = "ret"
                       /\ task.stack[Len(task.stack)]
                            = [behavior |-> "db.transaction", index |-> k])
                      => task.out = Returned(HandlerFaultErr(task))
                   /\ (/\ task.mode = "done"
                       /\ Count(task.trace, Event("commit", k)) = 1
                       /\ PassThrough(task.chain, 1..(k - 1)))
                      => task.out = Returned(HandlerFaultErr(task)))
    /\ [][\A t \in TaskIds :
            LET task == tasks[t]
                frame == task.stack[Len(task.stack)]
            IN
            (/\ task.mode = "ret"
             /\ frame.behavior = "db.transaction"
             /\ PassThrough(task.chain, (frame.index + 1)..Len(task.chain))
             /\ HandlerFaulted(task)
             /\ tasks'[t] # task)
            => \/ /\ tasks'[t].trace = Append(task.trace, Event("commit", frame.index))
                  /\ tasks'[t].out = task.out
               \/ tasks'[t].trace = Append(task.trace, Event("commitFailed", frame.index))]_vars

C31_Witness ==
    \E t \in TaskIds :
        /\ tasks[t].mode = "done"
        /\ tasks[t].chain = <<"TransactionCommandBehavior", "PassBehavior">>
        /\ tasks[t].invoked = <<[handler |-> "ThrowingHandler", arg |-> tasks[t].msg]>>
        /\ tasks[t].trace = <<Event("enter", 1), Event("transaction", 1), Event("begin", 1),
                              Event("next", 1), Event("enter", 2), Event("next", 2),
                              Event("handler", 0), Event("exit", 2), Event("commit", 1),
                              Event("exit", 1)>>
        /\ tasks[t].out = Returned(Err(<<"Unexpected error">>))

\* the value is what a handler of the bus returns for a query that has the
\* key and has not opted out of the cache
ProducedFor(key, value) ==
    \E q \in CacheQueries, h \in CacheHandlers :
        /\ KeyText(q) = key
        /\ ~UseCacheFalse(q)
        /\ QueryHandler_handle(h, q) = Returned(value)

\* the step drops entries of the cache and changes none
EntriesExpire ==
    /\ DOMAIN cache' \subseteq DOMAIN cache
    /\ \A k \in DOMAIN cache' : cache'[k] = cache[k]

\* the step is the store of CacheQueryBehavior in the dispatch: next, called
\* once by the behavior, has returned, and the value it returned is put
\* under the key of the query of the dispatch, every other entry kept
StoresWhatNextReturned(task, after) ==
    LET frame == task.stack[Len(task.stack)]
        key == KeyText(task.msg)
    IN
    /\ task.mode = "ret"
    /\ IsCacheQueryBehavior(frame.behavior)
    /\ task.out.how = "return"
    /\ Count(task.trace, Event("next", frame.index)) = 1
    /\ after # task
    /\ DOMAIN cache' = (DOMAIN cache) \cup {key}
    /\ cache'[key].value = task.out.result
    /\ \A other \in (DOMAIN cache) \ {key} : cache'[other] = cache[other]

\* next has raised in CacheQueryBehavior
NextRaisedInCache(task) ==
    /\ task.mode = "ret"
    /\ IsCacheQueryBehavior(task.stack[Len(task.stack)].behavior)
    /\ task.out.how = "throw"

\* the step serves the dispatch from the cache
ServesHit(task, after) ==
    /\ ReadingCache(task)
    /\ Count(after.trace, Event("hit", task.stack[Len(task.stack)].index))
        > Count(task.trace, Event("hit", task.stack[Len(task.stack)].index))

\* C32: however concurrent executes interleave, the cache is written only by
\* a CacheQueryBehavior whose next has returned, and with the value next
\* returned, under the key of the query dispatched (entries otherwise only
\* expire); so every entry, and every value served on a hit, is a value the
\* pipeline inside the behavior produced for a query with that key; and a
\* dispatch whose next raises leaves the cache as it is and raises the fault.
C32_CacheHoldsPipelineValues ==
    /\ [](\A key \in DOMAIN cache : ProducedFor(key, cache[key].value))
    /\ [][/\ cache' # cache
             => \/ EntriesExpire
                \/ \E t \in TaskIds : StoresWhatNextReturned(tasks[t], tasks'[t])
          /\ \A t \in TaskIds :
                /\ (NextRaisedInCache(tasks[t]) /\ tasks'[t] # tasks[t])
                   => /\ cache' = cache
                      /\ tasks'[t].out = tasks[t].out
                      /\ Count(tasks'[t].trace,
                               Event("set", tasks[t].stack[Len(tasks[t].stack)].index)) = 0
                /\ ServesHit(tasks[t], tasks'[t])
                   => /\ tasks'[t].out.how = "return"
                      /\ KeyText(tasks[t].msg) \in DOMAIN cache
                      /\ tasks'[t].out.result = cache[KeyText(tasks[t].msg)].value
                      /\ ProducedFor(KeyText(tasks[t].msg), tasks'[t].out.result)]_vars

\* two executes of one query have both missed; the first has stored the
\* handler's value and returned, the second is about to store over it
C32_Witness ==
    /\ bus = "query"
    /\ cache = [k \in {"query:TestQuery:{\"value\":5}"} |->
                    [value |-> Bare(15), ttl |-> "3600 seconds"]]
    /\ \E t, u \in TaskIds :
        /\ t # u
        /\ tasks[t].msg = [name |-> "TestQuery", value |-> 5]
        /\ tasks[u].msg = tasks[t].msg
        /\ tasks[t].chain = <<"CacheQueryBehavior">>
        /\ tasks[u].chain = <<"CacheQueryBehavior">>
        /\ tasks[t].mode = "done"
        /\ tasks[t].trace = <<Event("enter", 1), Event("miss", 1), Event("next", 1),
                              Event("handler", 0), Event("set", 1), Event("exit", 1)>>
        /\ tasks[t].out = Returned(Bare(15))
        /\ tasks[u].mode = "ret"
        /\ tasks[u].trace = <<Event("enter", 1), Event("miss", 1), Event("next", 1),
                              Event("handler", 0)>>
        /\ tasks[u].out = Returned(Bare(15))

\* a helper call for the identifier has not run its then callback yet, and
\* none has
AwaitsRegistration(identifier) ==
    /\ \E i \in DOMAIN promises :
          promises[i].name = identifier /\ promises[i].state \in {"pending", "fulfilled"}
    /\ \A i \in DOMAIN promises :
          promises[i].name = identifier => promises[i].state # "registered"

\* the registry after the step is the registry before it with the handler
\* under the identifier
RegistersUnder(identifier, handler) ==
    /\ DOMAIN handlers' = (DOMAIN handlers) \cup {identifier}
    /\ handlers'[identifier] = handler
    /\ \A other \in (DOMAIN handlers) \ {identifier} : handlers'[other] = handlers[other]

\* what the catch callback of the helper writes to the console
FailedToRegister(busKind, identifier) ==
    IF busKind = "command"
    THEN <<Record("error", "Failed to register command handler for " \o identifier \o ":")>>
    ELSE <<Record("error", "Failed to register query handler for " \o identifier \o ":")>>

\* C33: registerCommandHandler and registerQueryHandler return with the
\* registry as it was, the registration left to a later step; an execute
\* issued while the registration under its identifier is still to come
\* settles with the not-found outcome; once the container has resolved the
\* bus, the handler is eventually registered under the given name, by a step
\* that changes nothing else of the registry; once the container has failed,
\* the failure is eventually written to the console and the registry is left
\* as it was; the registry changes in no other step.
C33_HelperRegistersLater ==
    /\ [][/\ Len(promises') > Len(promises)
             => /\ handlers' = handlers
                /\ tasks' = tasks
                /\ promises' = Append(promises, promises'[Len(promises')])
                /\ promises'[Len(promises')].state = "pending"
          /\ \A t \in TaskIds :
                (/\ tasks[t].mode = "idle"
                 /\ tasks'[t].mode # "idle"
                 /\ AwaitsRegistration(tasks'[t].msg.name))
                => /\ tasks'[t].mode = "done"
                   /\ tasks'[t].out = NotFoundOutcome(bus, tasks'[t].msg.name)
                   /\ tasks'[t].invoked = <<>>
          /\ \A i \in DOMAIN promises :
                promises'[i] # promises[i]
                => CASE promises[i].state = "pending" ->
                            /\ promises'[i].state \in {"fulfilled", "rejected"}
                            /\ handlers' = handlers
                     [] promises[i].state = "fulfilled" ->
                            /\ promises'[i].state = "registered"
                            /\ RegistersUnder(promises[i].name, promises[i].handler)
                     [] promises[i].state = "rejected" ->
                            /\ promises'[i].state = "logged"
                            /\ promises'[i].log = FailedToRegister(bus, promises[i].name)
                            /\ handlers' = handlers
                     [] OTHER -> FALSE
          /\ handlers' # handlers
             => \E i \in DOMAIN promises :
                    promises[i].state = "fulfilled" /\ promises'[i].state = "registered"]_vars
    /\ \A i \in 1..MaxCalls :
          (i \in DOMAIN promises /\ promises[i].state = "fulfilled")
          ~> (i \in DOMAIN promises /\ promises[i].state = "registered")
    /\ \A i \in 1..MaxCalls :
          (i \in DOMAIN promises /\ promises[i].state = "rejected")
          ~> (i \in DOMAIN promises /\ promises[i].state = "logged")

\* an execute issued between the helper call and the registration got the
\* not-found outcome, one issued after the registration reached the handler,
\* and a helper call whose container failed has logged the failure
C33_Witness ==
    /\ bus = "command"
    /\ handlers = [k \in {"OtherCommand"} |-> "TestHandler"]
    /\ Len(promises) = 2
    /\ promises[1] = [name |-> "OtherCommand", handler |-> "TestHandler",
                      state |-> "registered", error |-> NoFault, log |-> <<>>]
    /\ promises[2].name = "OtherCommand"
    /\ promises[2].state = "logged"
    /\ promises[2].log = FailedToRegister("command", "OtherCommand")
    /\ \E t, u \in TaskIds :
        /\ tasks[t].msg.name = "OtherCommand"
        /\ tasks[t].mode = "done"
        /\ tasks[t].out = NotFoundOutcome("command", "OtherCommand")
        /\ tasks[u].msg = tasks[t].msg
        /\ tasks[u].mode = "done"
        /\ tasks[u].invoked = <<[handler |-> "TestHandler", arg |-> tasks[u].msg]>>
        /\ tasks[u].out = Returned(Ok(10))

====
